---------------------------- MODULE Spec2Model ----------------------------
(***************************************************************************)
(* A model of the code factory core: the agent runtime (agent_runtime.py), *)
(* the orchestrator (orchestrator.py), the checkpoint manager              *)
(* (checkpoint.py) and the transactional file writer (transaction.py).     *)
(*                                                                         *)
(* Several state machines share this module.  SpecRuntime drives          *)
(* AgentRuntime.execute_agent with its worker thread and deadline;         *)
(* Spec drives Orchestrator.run_factory over the runtime and the           *)
(* checkpoint store, and SpecApi the orchestrator's direct calls;          *)
(* SpecManager drives a CheckpointManager on its own; SpecTxn drives one   *)
(* Transaction over a small file system and SpecWriter drives              *)
(* CodeWriter.write_project_files over it.  The variables of the machines  *)
(* a specification does not drive keep their initial values.               *)
(***************************************************************************)
EXTENDS Integers, Sequences, FiniteSets, TLC

VARIABLES
    \* ---- AgentRuntime (agent_runtime.py) ----
    agents,             \* self._agents: the registered agent names
    rt_objects,         \* self._agents: the agent object under each name
    execution_history,  \* self._execution_history
    rt_pc,              \* position of the caller inside execute_agent
    rt_call,            \* agent_name, input_data, timeout_seconds of the call in flight
    rt_run,             \* the local AgentRun `run` of the call in flight
    rt_worker,          \* state of execution_thread
    result_container,   \* the dict the worker writes its outcome to
    rt_elapsed,         \* time since execution_thread.start()
    rt_alive,           \* what execution_thread.is_alive() answered at line 211
    rt_abandoned,       \* abandoned workers still running after their call returned
    rt_calls,           \* number of execute_agent calls made so far
    rt_returned,        \* the records execute_agent returned, in call order
    rt_raised,          \* whether the last register_agent raised ValueError
    rt_view,            \* the list the last get_execution_history returned,
                        \* as its caller holds it
    \* ---- Transaction (transaction.py) ----
    txn,                \* the Transaction object's fields
    fs,                 \* the working, staging and backup directory trees
    txn_pc,             \* "new", "body" (inside the with block) or "exited"
    txn_exc,            \* the exception the last Transaction call let out
    work0,              \* the working directory when the transaction began
    \* ---- Orchestrator (orchestrator.py) and CheckpointManager (checkpoint.py) ----
    orch_pc,            \* position of the caller inside run_factory
    orch_idea,          \* the idea of the run_factory call
    result,             \* the ProjectResult of the run_factory call
    completed_runs,     \* self._completed_runs
    checkpoint_manager, \* self._checkpoint_manager: None or its project_name
    ckpt_store,         \* the checkpoint directory of each project
    ck_now,             \* datetime.now(), in seconds
    ck_usec,            \* datetime.now(), within the second
    orch_runs,          \* number of run_factory calls made so far
    recovery,           \* what the last handle_failure returned
    project_files,      \* what write_project_files has written to the project
    faults,             \* agent, save and write failures that have happened
    orch_call,          \* the last call made on the Orchestrator and its return
    api_calls,          \* calls of checkpoint, handle_failure and
                        \* resume_from_checkpoint made by the Orchestrator's user
    \* ---- a CheckpointManager used on its own (checkpoint.py) ----
    mgr_call,           \* the last call made on the manager and its return
    mgr_calls,          \* number of calls made on the manager
    \* ---- CodeWriter (code_writer.py) ----
    wr_history,         \* the write_project_files calls made on one CodeWriter
    \* ---- two Orchestrators at work on two projects (orchestrator.py) ----
    pr_runs             \* per run_factory call: its _checkpoint_manager and
                        \* the number of checkpoints it has saved

rt_vars == <<agents, rt_objects, execution_history, rt_pc, rt_call, rt_run, rt_worker,
             result_container, rt_elapsed, rt_alive, rt_abandoned, rt_calls,
             rt_returned, rt_raised>>

txn_vars == <<txn, fs, txn_pc, txn_exc, work0>>

orch_vars == <<orch_pc, orch_idea, result, completed_runs, checkpoint_manager,
               ckpt_store, ck_now, ck_usec, orch_runs, recovery, project_files>>

api_vars == <<orch_call, api_calls>>

mgr_vars == <<mgr_call, mgr_calls>>

wr_vars == <<wr_history>>

view_vars == <<rt_view>>

pr_vars == <<pr_runs>>

vars == <<rt_vars, txn_vars, orch_vars, faults, api_vars, mgr_vars, wr_vars,
          view_vars, pr_vars>>

-----------------------------------------------------------------------------
(* Bounds of the model *)

\* execute_agent calls per behaviour of SpecRuntime
MaxCalls == 2

\* ticks of the clock the model resolves before it jumps to the deadline
MaxClock == 1

\* file operations per transaction
MaxOps == 2

\* run_factory calls per behaviour of Spec
MaxRuns == 1

\* seconds the clock advances
MaxTime == 1

\* failures of agents, checkpoint saves and file writes per behaviour of Spec
MaxFaults == 2

\* direct calls of checkpoint, handle_failure and resume_from_checkpoint
MaxApiCalls == 2

\* calls made on a CheckpointManager used on its own
MaxManagerCalls == 3

\* write_project_files calls made on one CodeWriter
MaxWrites == 2

-----------------------------------------------------------------------------
(* Values *)

\* Python's None, for the string-valued fields
None == "None"

\* timeout_seconds: Optional[int] = None
NoneTimeout == -1

DEFAULT_TIMEOUT_SECONDS == 300

AgentNames == {"alpha", "beta"}

\* the agent objects a caller registers
AgentObjects == {"agent1", "agent2"}

Inputs == {"in1"}

\* the timeout_seconds arguments the callers pass
TimeoutArgs == {NoneTimeout, 0, 1}

\* run.error is None
NoError == [kind |-> None, agent |-> None, timeout |-> 0]

\* f"Agent '{agent_name}' not found"
NotFoundError(agent_name) ==
    [kind |-> "not found", agent |-> agent_name, timeout |-> 0]

\* str(error) of the exception the agent raised
ExceptionError(agent_name) ==
    [kind |-> "exception", agent |-> agent_name, timeout |-> 0]

\* str(AgentTimeoutError(agent_name, timeout_seconds)): the text names the
\* agent and the timeout it was given
AgentTimeoutError(agent_name, timeout_seconds) ==
    [agent |-> agent_name, timeout |-> timeout_seconds]

\* f"TIMEOUT: {str(timeout_error)}"
TimeoutErrorText(timeout_error) ==
    [kind |-> "TIMEOUT", agent |-> timeout_error.agent,
     timeout |-> timeout_error.timeout]

\* output.model_dump() of what agent.execute(input_data) returned
OutputOf(agent_name, input_data) == <<"output", agent_name, input_data>>

NoOutput == <<None, None, None>>

\* AgentRun(agent_name=..., input_data=..., status=...): the other fields
\* take their defaults; started_at is the time of the call
AgentRun(agent_name, input_data, status, started_at) ==
    [agent_name |-> agent_name, input_data |-> input_data,
     output_data |-> NoOutput, status |-> status, started_at |-> started_at,
     completed |-> FALSE, error |-> NoError, duration_seconds |-> -1]

EmptyContainer == [output |-> NoOutput, error |-> FALSE, timed_out |-> FALSE]

NoCall == [agent_name |-> None, input_data |-> None, timeout_seconds |-> 0]

-----------------------------------------------------------------------------
(* AgentRuntime *)

\* AgentRuntime.__init__, and the agents registered before the first call
RuntimeWith(registered) ==
    /\ agents = registered
    /\ rt_objects = registered \X {"agent1"}
    /\ execution_history = <<>>
    /\ rt_pc = "idle"
    /\ rt_call = NoCall
    /\ rt_run = AgentRun(None, None, "pending", 0)
    /\ rt_worker = "none"
    /\ result_container = EmptyContainer
    /\ rt_elapsed = 0
    /\ rt_alive = FALSE
    /\ rt_abandoned = 0
    /\ rt_calls = 0
    /\ rt_returned = <<>>
    /\ rt_raised = FALSE

InitRuntime == RuntimeWith({})

\* get_agent(name): the object registered under the name, or None
get_agent(objects, name) ==
    IF \E agent \in AgentObjects : <<name, agent>> \in objects
      THEN CHOOSE agent \in AgentObjects : <<name, agent>> \in objects
      ELSE None

\* a registration that replaces the agent a name already has
register_agentOverwrites(name, agent) ==
    /\ rt_pc = "idle"
    /\ rt_raised' = FALSE
    /\ agents' = agents \cup {name}
    /\ rt_objects' = {pair \in rt_objects : pair[1] # name} \cup {<<name, agent>>}
    /\ UNCHANGED <<execution_history, rt_pc, rt_call, rt_run, rt_worker,
                   result_container, rt_elapsed, rt_alive, rt_abandoned,
                   rt_calls, rt_returned>>

\* register_agent(agent) for an agent with agent.name = name: a name
\* already registered raises ValueError and changes nothing
register_agent(name, agent) ==
    /\ rt_pc = "idle"
    /\ IF name \in agents
         THEN /\ rt_raised' = TRUE
              /\ agents' = agents
              /\ rt_objects' = rt_objects
         ELSE /\ rt_raised' = FALSE
              /\ agents' = agents \cup {name}
              /\ rt_objects' = rt_objects \cup {<<name, agent>>}
    /\ UNCHANGED <<execution_history, rt_pc, rt_call, rt_run, rt_worker,
                   result_container, rt_elapsed, rt_alive, rt_abandoned,
                   rt_calls, rt_returned>>

\* the not-found record built without its status argument: AgentRun's
\* default status
NotFoundRunDefaultStatus(agent_name, input_data, started_at) ==
    [AgentRun(agent_name, input_data, "pending", started_at)
       EXCEPT !.error = NotFoundError(agent_name), !.completed = TRUE]

\* the record execute_agent returns for a name that is not registered
NotFoundRun(agent_name, input_data, started_at) ==
    [AgentRun(agent_name, input_data, "failed", started_at)
       EXCEPT !.error = NotFoundError(agent_name), !.completed = TRUE]

\* the ledger after the early return of lines 170-179: the record is
\* returned without being appended
HistoryAfterNotFound(history, run) == history

\* execute_agent, lines 169-179: the agent is not registered
ExecuteAgentNotFound(agent_name, input_data, timeout_seconds) ==
    /\ rt_pc = "idle"
    /\ agent_name \notin agents
    /\ LET run == NotFoundRun(agent_name, input_data, rt_calls)
       IN  /\ rt_returned' = Append(rt_returned, run)
           /\ execution_history' = HistoryAfterNotFound(execution_history, run)
    /\ rt_calls' = rt_calls + 1
    /\ UNCHANGED <<agents, rt_objects, rt_pc, rt_call, rt_run, rt_worker, result_container,
                   rt_elapsed, rt_alive, rt_abandoned, rt_raised>>

\* lines 182-183
EffectiveTimeout(timeout_seconds) ==
    IF timeout_seconds = NoneTimeout THEN DEFAULT_TIMEOUT_SECONDS
                                     ELSE timeout_seconds

\* execute_agent, lines 181-208: build the run, start the worker thread and
\* enter join(timeout)
ExecuteAgentStart(agent_name, input_data, timeout_seconds) ==
    /\ rt_pc = "idle"
    /\ agent_name \in agents
    /\ rt_call' = [agent_name |-> agent_name, input_data |-> input_data,
                   timeout_seconds |-> EffectiveTimeout(timeout_seconds)]
    /\ rt_run' = AgentRun(agent_name, input_data, "running", rt_calls)
    /\ result_container' = EmptyContainer
    /\ rt_worker' = "running"
    /\ rt_elapsed' = 0
    /\ rt_pc' = "joining"
    /\ rt_calls' = rt_calls + 1
    /\ UNCHANGED <<agents, rt_objects, execution_history, rt_alive, rt_abandoned,
                   rt_returned, rt_raised>>

\* execute_with_wrapper, lines 198-199: agent.execute returned
WorkerReturn ==
    /\ rt_worker = "running"
    /\ result_container' =
         [result_container EXCEPT
            !.output = OutputOf(rt_call.agent_name, rt_call.input_data)]
    /\ rt_worker' = "finished"
    /\ UNCHANGED <<agents, rt_objects, execution_history, rt_pc, rt_call, rt_run,
                   rt_elapsed, rt_alive, rt_abandoned, rt_calls, rt_returned,
                   rt_raised>>

\* execute_with_wrapper, lines 200-201: agent.execute raised
WorkerRaise ==
    /\ rt_worker = "running"
    /\ result_container' = [result_container EXCEPT !.error = TRUE]
    /\ rt_worker' = "finished"
    /\ UNCHANGED <<agents, rt_objects, execution_history, rt_pc, rt_call, rt_run,
                   rt_elapsed, rt_alive, rt_abandoned, rt_calls, rt_returned,
                   rt_raised>>

\* time passes while the caller is inside join(timeout): one tick at a time
\* while the model resolves ticks, then straight to the deadline
Tick ==
    /\ rt_pc = "joining"
    /\ rt_worker = "running"
    /\ rt_elapsed < rt_call.timeout_seconds
    /\ rt_elapsed' = IF rt_elapsed < MaxClock /\ rt_elapsed + 1 < rt_call.timeout_seconds
                       THEN rt_elapsed + 1
                       ELSE rt_call.timeout_seconds
    /\ UNCHANGED <<agents, rt_objects, execution_history, rt_pc, rt_call, rt_run, rt_worker,
                   result_container, rt_alive, rt_abandoned, rt_calls,
                   rt_returned, rt_raised>>

\* join() with no timeout: only the end of the thread ends the wait
JoinOverNoTimeout(worker, elapsed, timeout_seconds) ==
    worker # "running"

\* execution_thread.join(timeout=timeout_seconds) is over: the thread ended
\* or the timeout elapsed
JoinOver(worker, elapsed, timeout_seconds) ==
    worker # "running" \/ elapsed >= timeout_seconds

\* line 208 returns to the caller
JoinReturn ==
    /\ rt_pc = "joining"
    /\ JoinOver(rt_worker, rt_elapsed, rt_call.timeout_seconds)
    /\ rt_pc' = "checking"
    /\ UNCHANGED <<agents, rt_objects, execution_history, rt_call, rt_run, rt_worker,
                   result_container, rt_elapsed, rt_alive, rt_abandoned,
                   rt_calls, rt_returned, rt_raised>>

\* the report without the is_alive() branch: the container is read as if
\* the worker had ended
ReportRunNoAliveCheck(run, call, alive, container, elapsed) ==
    IF container.error
      THEN [run EXCEPT
              !.status = "failed",
              !.error = ExceptionError(call.agent_name),
              !.completed = TRUE,
              !.duration_seconds = elapsed]
      ELSE [run EXCEPT
              !.output_data = container.output,
              !.status = "success",
              !.completed = TRUE,
              !.duration_seconds = elapsed]

\* the report without the error branch: what the container holds is
\* reported as the output of a successful run
ReportRunIgnoresError(run, call, alive, container, elapsed) ==
    IF alive
      THEN [run EXCEPT
              !.status = "failed",
              !.error = TimeoutErrorText(
                          AgentTimeoutError(call.agent_name, call.timeout_seconds)),
              !.completed = TRUE,
              !.duration_seconds = call.timeout_seconds]
      ELSE [run EXCEPT
              !.output_data = container.output,
              !.status = "success",
              !.completed = TRUE,
              !.duration_seconds = elapsed]

\* lines 211-252: the record the caller reports, from is_alive() and the
\* result container
ReportRun(run, call, alive, container, elapsed) ==
    IF alive
      THEN [run EXCEPT
              !.status = "failed",
              !.error = TimeoutErrorText(
                          AgentTimeoutError(call.agent_name, call.timeout_seconds)),
              !.completed = TRUE,
              !.duration_seconds = call.timeout_seconds]
      ELSE IF container.error
        THEN [run EXCEPT
                !.status = "failed",
                !.error = ExceptionError(call.agent_name),
                !.completed = TRUE,
                !.duration_seconds = elapsed]
        ELSE [run EXCEPT
                !.output_data = container.output,
                !.status = "success",
                !.completed = TRUE,
                !.duration_seconds = elapsed]

\* lines 210-255: is_alive() is read, the record is filled in, appended to
\* the ledger and returned; a worker still alive is abandoned
ExecuteAgentReport ==
    /\ rt_pc = "checking"
    /\ LET alive == (rt_worker = "running")
           run == ReportRun(rt_run, rt_call, alive, result_container, rt_elapsed)
       IN  /\ rt_alive' = alive
           /\ rt_run' = run
           /\ execution_history' = Append(execution_history, run)
           /\ rt_returned' = Append(rt_returned, run)
           /\ rt_abandoned' = IF alive THEN rt_abandoned + 1 ELSE rt_abandoned
    /\ rt_worker' = "none"
    /\ rt_pc' = "idle"
    /\ UNCHANGED <<agents, rt_objects, rt_call, result_container, rt_elapsed, rt_calls,
                   rt_raised>>

\* how an abandoned worker's wrapper may end: agent.execute returned or
\* raised
WorkerEndings == {"success", "failed"}

\* a wrapper that writes its outcome to the record of its call
RecordsAfterAbandonedWrites(records, ending) ==
    [i \in 1..Len(records) |->
        IF records[i].error.kind = "TIMEOUT"
          THEN [records[i] EXCEPT !.status = ending]
          ELSE records[i]]

\* execute_with_wrapper, lines 195-201, in a worker whose call has returned:
\* it writes to the result_container of its own call and to nothing else,
\* so the records are as they were
RecordsAfterAbandoned(records, ending) == records

\* an abandoned worker ends on its own schedule: it writes to the result
\* container of its own call, which nobody reads any more
AbandonedWorkerEnds(ending) ==
    /\ rt_abandoned > 0
    /\ rt_abandoned' = rt_abandoned - 1
    /\ execution_history' = RecordsAfterAbandoned(execution_history, ending)
    /\ rt_returned' = RecordsAfterAbandoned(rt_returned, ending)
    /\ UNCHANGED <<agents, rt_objects, rt_pc, rt_call, rt_run, rt_worker,
                   result_container, rt_elapsed, rt_alive, rt_calls, rt_raised>>

\* no get_execution_history call has been made
NoView == [list |-> None, items |-> <<>>]

InitView == rt_view = NoView

\* returning self._execution_history itself: the caller holds the ledger
get_execution_historyNoCopy(history) == [list |-> "ledger", items |-> history]

\* get_execution_history, line 264: self._execution_history.copy(), a new
\* list with the same records
get_execution_history(history) == [list |-> "new", items |-> history]

\* the items of the list the caller holds
ViewItems(view, history) == IF view.list = "ledger" THEN history ELSE view.items

GetExecutionHistory ==
    /\ rt_view' = get_execution_history(execution_history)
    /\ UNCHANGED rt_vars

\* a record the caller builds itself
CallerRun == AgentRun(None, None, "pending", 0)

\* what the caller does to the list it was given: append, pop(0), reverse
ViewOps == {"append", "pop", "reverse"}

RECURSIVE Reversed(_)
Reversed(items) ==
    IF items = <<>> THEN <<>>
                    ELSE Append(Reversed(Tail(items)), Head(items))

ViewAfter(items, op) ==
    CASE op = "append"  -> Append(items, CallerRun)
      [] op = "pop"     -> IF items = <<>> THEN items ELSE Tail(items)
      [] op = "reverse" -> Reversed(items)

\* the caller mutates the list it holds; a list that is the ledger's own
\* list object changes the ledger
MutateView(op) ==
    /\ rt_view.list # None
    /\ LET items == ViewAfter(ViewItems(rt_view, execution_history), op)
       IN  /\ Len(items) <= MaxCalls
           /\ rt_view' = [rt_view EXCEPT !.items = items]
           /\ execution_history' = IF rt_view.list = "ledger" THEN items
                                                              ELSE execution_history
    /\ UNCHANGED <<agents, rt_objects, rt_pc, rt_call, rt_run, rt_worker,
                   result_container, rt_elapsed, rt_alive, rt_abandoned,
                   rt_calls, rt_returned, rt_raised>>

-----------------------------------------------------------------------------
(* File system values *)

Absent == "absent"

Paths == {"a", "d/f"}

Dirs == {"d"}

\* relative_path.parent, for the paths that have one below the root
ParentDirs(p) == IF p = "d/f" THEN {"d"} ELSE {}

FilesUnder(d) == IF d = "d" THEN {"d/f"} ELSE {}

\* contents a file of the working directory may have before the transaction
OldContents == {"x"}

\* contents create_file writes
NewContents == {"y", "z"}

\* contents modify_file writes
ModifiedContents == {"z"}

NoFiles == [p \in Paths |-> Absent]

\* a directory tree: whether its root exists, its directories and its files
EmptyRoot == [exists |-> TRUE, dirs |-> {}, files |-> NoFiles]

NoRoot == [exists |-> FALSE, dirs |-> {}, files |-> NoFiles]

\* Path.exists() of a file
FileExists(root, p) == root.exists /\ root.files[p] # Absent

DirExists(root, d) == root.exists /\ d \in root.dirs

\* Path.mkdir(parents=True, exist_ok=True)
Mkdir(root, ds) == [root EXCEPT !.exists = TRUE, !.dirs = @ \cup ds]

\* whether the directory a file is written into exists
ParentExists(root, p) == root.exists /\ ParentDirs(p) \subseteq root.dirs

\* write_text / shutil.copy2 onto a path whose parent exists
WriteFile(root, p, c) == [root EXCEPT !.files[p] = c]

\* Path.unlink()
Unlink(root, p) == [root EXCEPT !.files[p] = Absent]

\* shutil.rmtree of a directory below the root
RmtreeDir(root, d) ==
    [root EXCEPT !.dirs = @ \ {d},
                 !.files = [p \in Paths |->
                              IF p \in FilesUnder(d) THEN Absent ELSE @[p]]]

\* the working directories a transaction may start from
InitialWorkRoots ==
    {r \in [exists : {TRUE}, dirs : SUBSET Dirs,
            files : [Paths -> OldContents \cup {Absent}]] :
        \A p \in Paths : r.files[p] # Absent => ParentDirs(p) \subseteq r.dirs}

-----------------------------------------------------------------------------
(* Transaction *)

\* FileOperation(operation_type, target_path, backup_path, content);
\* target_path and backup_path are kept as the relative path under the
\* staging root and the backup root
FileOperation(operation_type, target, is_dir, has_backup, content) ==
    [operation_type |-> operation_type, target |-> target, is_dir |-> is_dir,
     has_backup |-> has_backup, content |-> content]

\* Transaction.__init__
NewTransaction(enable_staging) ==
    [enable_staging |-> enable_staging, operations |-> <<>>,
     active |-> FALSE, committed |-> FALSE, rolled_back |-> FALSE,
     commit_called |-> FALSE, undone |-> <<>>]

\* the tree self.staging_dir names: the staging root, or the working
\* directory itself in direct mode (line 104)
StagingRoot(t, f) == IF t.enable_staging THEN f.stage ELSE f.work

\* operations that write under the working directory in either mode
WithStagingRootInWorkingDir(t, f, root) == [f EXCEPT !.work = root]

\* the trees after self.staging_dir was written to
WithStagingRoot(t, f, root) ==
    IF t.enable_staging THEN [f EXCEPT !.stage = root]
                        ELSE [f EXCEPT !.work = root]

InitTxn ==
    /\ txn = NewTransaction(TRUE)
    /\ fs \in [work : InitialWorkRoots, stage : {NoRoot}, backup : {NoRoot}]
    /\ txn_pc = "new"
    /\ txn_exc = None
    /\ work0 = fs.work

\* Transaction(working_dir, enable_staging).__enter__ on the trees f: the
\* object and the trees it leaves
Entered(f, enable_staging) ==
    [t |-> [NewTransaction(enable_staging) EXCEPT !.active = TRUE],
     f |-> [f EXCEPT !.stage = IF enable_staging THEN EmptyRoot ELSE @,
                     !.backup = EmptyRoot]]

\* Transaction(working_dir, enable_staging).__enter__
Enter(enable_staging) ==
    /\ txn_pc = "new"
    /\ txn' = Entered(fs, enable_staging).t
    /\ fs' = Entered(fs, enable_staging).f
    /\ txn_pc' = "body"
    /\ txn_exc' = None
    /\ work0' = fs.work

\* a write that adds to the file it finds instead of replacing it
CreateFileAppends(t, f, relative_path, content) ==
    LET root == Mkdir(StagingRoot(t, f), ParentDirs(relative_path))
        text == IF FileExists(root, relative_path) THEN "appended" ELSE content
    IN  [t |-> [t EXCEPT !.operations =
                  Append(@, FileOperation("create", relative_path, FALSE, FALSE,
                                          content))],
         f |-> WithStagingRoot(t, f, WriteFile(root, relative_path, text))]

\* create_file on an active transaction: the object and the trees it leaves
CreateFile(t, f, relative_path, content) ==
    LET root == Mkdir(StagingRoot(t, f), ParentDirs(relative_path))
    IN  [t |-> [t EXCEPT !.operations =
                  Append(@, FileOperation("create", relative_path, FALSE, FALSE,
                                          content))],
         f |-> WithStagingRoot(t, f, WriteFile(root, relative_path, content))]

\* create_directory on an active transaction
CreateDirectory(t, f, relative_path) ==
    [t |-> [t EXCEPT !.operations =
              Append(@, FileOperation("create", relative_path, TRUE, FALSE, None))],
     f |-> WithStagingRoot(t, f, Mkdir(StagingRoot(t, f), {relative_path}))]

\* create_file
create_file(relative_path, content) ==
    /\ txn_pc = "body"
    /\ txn.active
    /\ Len(txn.operations) < MaxOps
    /\ LET r == CreateFile(txn, fs, relative_path, content)
       IN  /\ fs' = r.f
           /\ txn' = r.t
    /\ txn_exc' = None
    /\ UNCHANGED <<txn_pc, work0>>

\* create_directory
create_directory(relative_path) ==
    /\ txn_pc = "body"
    /\ txn.active
    /\ Len(txn.operations) < MaxOps
    /\ LET r == CreateDirectory(txn, fs, relative_path)
       IN  /\ fs' = r.f
           /\ txn' = r.t
    /\ txn_exc' = None
    /\ UNCHANGED <<txn_pc, work0>>

\* modify_file: the file is backed up if it exists under the staging root,
\* then written; write_text needs the parent directory
modify_file(relative_path, new_content) ==
    /\ txn_pc = "body"
    /\ txn.active
    /\ Len(txn.operations) < MaxOps
    /\ ParentExists(StagingRoot(txn, fs), relative_path)
    /\ LET root == StagingRoot(txn, fs)
           had == FileExists(root, relative_path)
           backup == IF had
                       THEN WriteFile(Mkdir(fs.backup, ParentDirs(relative_path)),
                                      relative_path, root.files[relative_path])
                       ELSE fs.backup
       IN  /\ fs' = WithStagingRoot(txn, [fs EXCEPT !.backup = backup],
                                    WriteFile(root, relative_path, new_content))
           /\ txn' = [txn EXCEPT !.operations =
                        Append(@, FileOperation("modify", relative_path, FALSE,
                                                had, new_content))]
    /\ txn_exc' = None
    /\ UNCHANGED <<txn_pc, work0>>

\* delete_file: a file that exists under the staging root is backed up,
\* unlinked and recorded; any other path is left alone and not recorded
delete_file(relative_path) ==
    /\ txn_pc = "body"
    /\ txn.active
    /\ Len(txn.operations) < MaxOps
    /\ LET root == StagingRoot(txn, fs)
       IN  IF FileExists(root, relative_path)
             THEN /\ fs' = WithStagingRoot(txn,
                             [fs EXCEPT !.backup =
                                WriteFile(Mkdir(@, ParentDirs(relative_path)),
                                          relative_path, root.files[relative_path])],
                             Unlink(root, relative_path))
                  /\ txn' = [txn EXCEPT !.operations =
                               Append(@, FileOperation("delete", relative_path,
                                                       FALSE, TRUE, None))]
             ELSE UNCHANGED <<fs, txn>>
    /\ txn_exc' = None
    /\ UNCHANGED <<txn_pc, work0>>

\* FileOperation.rollback on the tree its target lives in; an undo that
\* raises (copy2 into a directory that is gone) leaves the tree as it is
RollbackOperation(op, root, backup) ==
    IF op.operation_type = "create"
      THEN IF op.is_dir
             THEN IF DirExists(root, op.target) THEN RmtreeDir(root, op.target)
                                                ELSE root
             ELSE IF FileExists(root, op.target) THEN Unlink(root, op.target)
                                                 ELSE root
      ELSE \* modify, delete: restore from the backup if there is one
           IF op.has_backup /\ FileExists(backup, op.target)
                /\ ParentExists(root, op.target)
             THEN WriteFile(root, op.target, backup.files[op.target])
             ELSE root

\* the order Transaction.rollback walks self.operations in: the positions
\* of the operations, last first
UndoOrder(ops) == [i \in 1..Len(ops) |-> Len(ops) + 1 - i]

\* one call of operation.rollback() that rollback made: the position of the
\* operation in self.operations and whether the call raised
UndoAttempt(i, raised) == [index |-> i, raised |-> raised]

\* the loop is left by the first undo that raises
RECURSIVE UndoAllStopsAtFailure(_, _, _, _, _)
UndoAllStopsAtFailure(order, ops, root, backup, failing) ==
    IF order = <<>> THEN [root |-> root, attempts |-> <<>>]
    ELSE IF Head(order) \in failing
      THEN [root |-> root, attempts |-> <<UndoAttempt(Head(order), TRUE)>>]
    ELSE LET rest == UndoAllStopsAtFailure(Tail(order), ops,
                       RollbackOperation(ops[Head(order)], root, backup),
                       backup, failing)
         IN  [root |-> rest.root,
              attempts |-> <<UndoAttempt(Head(order), FALSE)>> \o rest.attempts]

\* the loop of Transaction.rollback over the positions `order`: each
\* operation's undo is called, and one that raises (the positions in
\* failing) is logged and leaves the tree as it is
RECURSIVE UndoAll(_, _, _, _, _)
UndoAll(order, ops, root, backup, failing) ==
    IF order = <<>> THEN [root |-> root, attempts |-> <<>>]
    ELSE LET i == Head(order)
             raised == i \in failing
             rest == UndoAll(Tail(order), ops,
                       IF raised THEN root
                       ELSE RollbackOperation(ops[i], root, backup),
                       backup, failing)
         IN  [root |-> rest.root,
              attempts |-> <<UndoAttempt(i, raised)>> \o rest.attempts]

\* the ways a rollback may go: no undo raises, or the undo of one of the
\* operations does
RollbackRuns(t) ==
    IF t.rolled_back THEN {{}}
    ELSE {{}} \cup {{i} : i \in 1..Len(t.operations)}

\* Transaction.rollback as a function of the object and the trees; undone
\* keeps the calls of operation.rollback() it made
Rollback(t, f, failing) ==
    IF t.rolled_back
      THEN [t |-> t, f |-> f]
      ELSE LET all == UndoAll(UndoOrder(t.operations), t.operations,
                              StagingRoot(t, f), f.backup, failing)
               undone == WithStagingRoot(t, f, all.root)
           IN  [t |-> [t EXCEPT !.rolled_back = TRUE, !.active = FALSE,
                                !.undone = all.attempts],
                f |-> IF t.enable_staging /\ undone.stage.exists
                        THEN [undone EXCEPT !.stage = NoRoot]
                        ELSE undone]

\* the files of a tree
FilesOf(root) == {p \in Paths : FileExists(root, p)}

\* a copy that leaves the files the working directory already has
CopyFilesKeepsExisting(work, stage, copied) ==
    [work EXCEPT
       !.exists = TRUE,
       !.dirs = @ \cup UNION {ParentDirs(p) : p \in copied},
       !.files = [p \in Paths |-> IF p \in copied /\ @[p] = Absent
                                    THEN stage.files[p] ELSE @[p]]]

\* shutil.copy2 of the files `copied` from the staging root into the
\* working directory, with their parent directories
CopyFiles(work, stage, copied) ==
    [work EXCEPT
       !.exists = TRUE,
       !.dirs = @ \cup UNION {ParentDirs(p) : p \in copied},
       !.files = [p \in Paths |-> IF p \in copied THEN stage.files[p] ELSE @[p]]]

\* Transaction.commit as a function of the object and the trees.  fail is
\* "none", "copy" (a copy2 raises after the files `copied` were copied) or
\* "rmtree" (removing the staging root raises).  raised names the exception
\* the call lets out.
Commit(t, f, copied, fail) ==
    IF ~t.active
      THEN [t |-> t, f |-> f, raised |-> "RuntimeError"]
    ELSE IF t.committed
      THEN [t |-> t, f |-> f, raised |-> None]
    ELSE IF t.enable_staging /\ f.stage.exists /\ fail = "copy"
      THEN [t |-> [t EXCEPT !.commit_called = TRUE],
            f |-> [f EXCEPT !.work = CopyFiles(@, f.stage, copied)],
            raised |-> "OSError"]
    ELSE LET copiedAll == IF t.enable_staging /\ f.stage.exists
                            THEN [f EXCEPT !.work =
                                    CopyFiles(@, f.stage, FilesOf(f.stage))]
                            ELSE f
             done == [t EXCEPT !.committed = TRUE, !.active = FALSE,
                               !.commit_called = TRUE]
         IN  IF t.enable_staging /\ f.stage.exists /\ fail = "rmtree"
               THEN [t |-> done, f |-> copiedAll, raised |-> "OSError"]
               ELSE [t |-> done,
                     f |-> IF t.enable_staging /\ copiedAll.stage.exists
                             THEN [copiedAll EXCEPT !.stage = NoRoot]
                             ELSE copiedAll,
                     raised |-> None]

\* the ways a commit may go: every copy succeeds, a copy raises after a
\* proper subset of the staged files was copied, or the final rmtree raises
CommitRuns(t, f) ==
    {[copied |-> FilesOf(f.stage), fail |-> "none"]}
      \cup (IF t.enable_staging /\ f.stage.exists
              THEN {[copied |-> c, fail |-> "copy"] :
                      c \in (SUBSET FilesOf(f.stage)) \ {FilesOf(f.stage)}}
                   \cup {[copied |-> FilesOf(f.stage), fail |-> "rmtree"]}
              ELSE {})

\* txn.commit() called inside the with block
CommitCall ==
    /\ txn_pc = "body"
    /\ \E run \in CommitRuns(txn, fs) :
          LET r == Commit(txn, fs, run.copied, run.fail)
          IN  /\ txn' = r.t
              /\ fs' = r.f
              /\ txn_exc' = r.raised
    /\ UNCHANGED <<txn_pc, work0>>

\* txn.rollback() called inside the with block
RollbackCall ==
    /\ txn_pc = "body"
    /\ \E failing \in RollbackRuns(txn) :
          LET r == Rollback(txn, fs, failing)
          IN  /\ txn' = r.t
              /\ fs' = r.f
    /\ txn_exc' = None
    /\ UNCHANGED <<txn_pc, work0>>

\* no commit is run
NoCommitRun == [copied |-> {}, fail |-> "none"]

\* __exit__(exc_type, ...) as a function of the object and the trees: with
\* an exception from the body roll back and let it out; without one commit,
\* and on a commit error roll back and re-raise.  run is the way the commit
\* goes and failing the way the rollback goes.
Exit(t, f, exc, run, failing) ==
    IF exc # None
      THEN LET r == Rollback(t, f, failing)
           IN  [t |-> r.t, f |-> r.f, raised |-> exc]
      ELSE LET c == Commit(t, f, run.copied, run.fail)
               r == Rollback(c.t, c.f, failing)
           IN  IF c.raised = None
                 THEN [t |-> c.t, f |-> c.f, raised |-> None]
                 ELSE [t |-> r.t, f |-> r.f, raised |-> c.raised]

\* __exit__ with no exception
ExitNormal ==
    /\ txn_pc = "body"
    /\ \E run \in CommitRuns(txn, fs), failing \in RollbackRuns(txn) :
          LET r == Exit(txn, fs, None, run, failing)
          IN  /\ txn' = r.t
              /\ fs' = r.f
              /\ txn_exc' = r.raised
    /\ txn_pc' = "exited"
    /\ UNCHANGED work0

\* __exit__ that does not look at exc_type and commits
ExitExceptionCommits == ExitNormal

\* __exit__ with an exception from the body: roll back and re-raise it
ExitException ==
    /\ txn_pc = "body"
    /\ \E failing \in RollbackRuns(txn) :
          LET r == Exit(txn, fs, "BodyError", NoCommitRun, failing)
          IN  /\ txn' = r.t
              /\ fs' = r.f
              /\ txn_exc' = r.raised
    /\ txn_pc' = "exited"
    /\ UNCHANGED work0

-----------------------------------------------------------------------------
(* CodeWriter *)

\* contents the files dict of write_project_files gives a file
WriterContents == {"y"}

\* the files dicts a caller passes: pairs of path and content in the
\* dict's order, no path twice
FileDicts ==
    {d \in UNION {[1..n -> Paths \X WriterContents] :
                    n \in 0..Cardinality(Paths)} :
        \A i, j \in DOMAIN d : i # j => d[i][1] # d[j][1]}

\* CodeWriter._write_file: the parent directory, if the path has one, then
\* the file
write_file(t, f, file_path, content) ==
    LET d == IF ParentDirs(file_path) = {}
               THEN [t |-> t, f |-> f]
               ELSE CreateDirectory(t, f, CHOOSE x \in ParentDirs(file_path) : TRUE)
    IN  CreateFile(d.t, d.f, file_path, content)

\* the loop of write_project_files over files.items()
RECURSIVE WriteAll(_, _, _)
WriteAll(t, f, files) ==
    IF files = <<>> THEN [t |-> t, f |-> f]
    ELSE LET one == write_file(t, f, Head(files)[1], Head(files)[2])
         IN  WriteAll(one.t, one.f, Tail(files))

\* the with block of write_project_files up to its exit: stop = 0 when the
\* loop completes, else the position of the file whose write raises
WriterBody(f, files, enable_staging, stop) ==
    LET entered == Entered(f, enable_staging)
    IN  WriteAll(entered.t, entered.f,
                 IF stop = 0 THEN files ELSE SubSeq(files, 1, stop - 1))

\* CodeWriter.write_project_files(files, enable_staging): the transaction
\* and the trees it leaves, and the RuntimeError it raises for any
\* exception that leaves the with block
write_project_files(f, files, enable_staging, stop, run, failing) ==
    LET body == WriterBody(f, files, enable_staging, stop)
        out == Exit(body.t, body.f, IF stop = 0 THEN None ELSE "OSError",
                    run, failing)
    IN  [t |-> out.t, f |-> out.f,
         raised |-> IF out.raised = None THEN None ELSE "RuntimeError"]

InitWriter == wr_history = <<>>

\* the ways the commit of a write_project_files call may go: the commit
\* runs only when the loop completed
WriterCommitRuns(body, stop) ==
    IF stop = 0 THEN CommitRuns(body.t, body.f) ELSE {NoCommitRun}

\* the ways its rollback may go: the rollback runs only when the loop or
\* the commit raised, and then no undo raises or the first one called does
WriterRollbackRuns(body, stop, run) ==
    IF stop = 0 /\ run.fail = "none" THEN {{}}
    ELSE {failing \in RollbackRuns(body.t) :
            failing \subseteq {Len(body.t.operations)}}

\* one write_project_files call on the CodeWriter of the working directory
WriteProjectFiles(files, enable_staging, stop) ==
    /\ Len(wr_history) < MaxWrites
    /\ LET body == WriterBody(fs, files, enable_staging, stop)
       IN  \E run \in WriterCommitRuns(body, stop) :
           \E failing \in WriterRollbackRuns(body, stop, run) :
              LET r == write_project_files(fs, files, enable_staging, stop,
                                           run, failing)
              IN  /\ txn' = r.t
                  /\ fs' = r.f
                  /\ txn_exc' = r.raised
                  /\ wr_history' = Append(wr_history,
                        [files |-> files, enable_staging |-> enable_staging,
                         raised |-> r.raised])
    /\ txn_pc' = "exited"
    /\ work0' = fs.work

-----------------------------------------------------------------------------
(* CheckpointManager *)

Projects == {"unknown", "proj", "proj2"}

Ideas == {"idea1"}

\* Checkpoint.__init__: the ID is the stage name and the timestamp to the
\* second
Checkpoint(stage_name, idea, runs, project_path, metadata, sec, usec) ==
    [checkpoint_id |-> <<stage_name, sec>>, stage_name |-> stage_name,
     timestamp |-> <<sec, usec>>, idea |-> idea, completed_runs |-> runs,
     project_path |-> project_path, metadata |-> metadata]

\* run.model_dump() written by json.dump(default=str): started_at becomes
\* its text
DumpRun(run) == [run EXCEPT !.started_at = <<"str", @>>]

\* AgentRun(**run) on what json.load read: the text is parsed back
ParseRun(d) == [d EXCEPT !.started_at = @[2]]

\* Checkpoint.to_dict: the timestamp as isoformat text, the path as str,
\* the runs as their dumps
to_dict(c) ==
    [checkpoint_id |-> c.checkpoint_id, stage_name |-> c.stage_name,
     timestamp |-> <<"iso", c.timestamp[1], c.timestamp[2]>>,
     idea |-> c.idea,
     completed_runs |-> [i \in 1..Len(c.completed_runs) |->
                            DumpRun(c.completed_runs[i])],
     project_path |-> IF c.project_path # None THEN <<"str", c.project_path>>
                                               ELSE <<"null", None>>,
     metadata |-> c.metadata]

\* the constructor's timestamp and ID are not replaced by the stored ones
from_dictKeepsNow(d) ==
    [checkpoint_id |-> <<d.stage_name, ck_now>>, stage_name |-> d.stage_name,
     timestamp |-> <<ck_now, ck_usec>>,
     idea |-> d.idea,
     completed_runs |-> [i \in 1..Len(d.completed_runs) |->
                            ParseRun(d.completed_runs[i])],
     project_path |-> IF d.project_path[1] = "str" THEN d.project_path[2]
                                                   ELSE None,
     metadata |-> d.metadata]

\* Checkpoint.from_dict
from_dict(d) ==
    [checkpoint_id |-> d.checkpoint_id, stage_name |-> d.stage_name,
     timestamp |-> <<d.timestamp[2], d.timestamp[3]>>,
     idea |-> d.idea,
     completed_runs |-> [i \in 1..Len(d.completed_runs) |->
                            ParseRun(d.completed_runs[i])],
     project_path |-> IF d.project_path[1] = "str" THEN d.project_path[2]
                                                   ELSE None,
     metadata |-> d.metadata]

\* load_checkpoint found nothing
NoCheckpoint ==
    Checkpoint(None, None, <<>>, None, None, 0, 0)

\* a file of the checkpoint directory: missing, holding a whole JSON
\* document, or cut short by a failed json.dump
MissingFile == [state |-> "missing", data |-> to_dict(NoCheckpoint)]

CorruptFile == [state |-> "corrupt", data |-> to_dict(NoCheckpoint)]

JsonFile(d) == [state |-> "ok", data |-> d]

\* the stage names run_factory saves checkpoints under
StageNames == {"safety_validated", "planning_complete", "architecture_complete",
               "implementation_complete", "pipeline_complete", "pipeline_failed"}

\* the checkpoint IDs there can be
CheckpointIds == StageNames \X (0..MaxTime)

\* CheckpointManager.__init__ on a project nobody has saved for: the
\* directory exists and is empty; files maps <checkpoint_id>.json to its file
EmptyCheckpointDir ==
    [files |-> [id \in CheckpointIds |-> MissingFile], latest |-> MissingFile]

\* the directory's files with the file k written as v
PutFile(files, k, v) == [files EXCEPT ![k] = v]

\* the ways the two writes of save_checkpoint may go: open() or json.dump
\* raising at the unique file or at latest.json
SaveRuns == {"ok", "unique_open", "unique_dump", "latest_open", "latest_dump"}

\* save_checkpoint on a project's directory: the unique file is written
\* first, then latest.json; the first failing write raises
save_checkpoint(dir, c, how) ==
    LET file == JsonFile(to_dict(c))
        id == c.checkpoint_id
    IN  CASE how = "unique_open" -> [dir |-> dir, raised |-> TRUE]
          [] how = "unique_dump" ->
               [dir |-> [dir EXCEPT !.files = PutFile(@, id, CorruptFile)],
                raised |-> TRUE]
          [] how = "latest_open" ->
               [dir |-> [dir EXCEPT !.files = PutFile(@, id, file)],
                raised |-> TRUE]
          [] how = "latest_dump" ->
               [dir |-> [dir EXCEPT !.files = PutFile(@, id, file),
                                    !.latest = CorruptFile],
                raised |-> TRUE]
          [] OTHER ->
               [dir |-> [dir EXCEPT !.files = PutFile(@, id, file),
                                    !.latest = file],
                raised |-> FALSE]

\* the ID argument that asks for the latest checkpoint
LatestId == <<None, 0>>

\* what load_checkpoint makes of a file: a missing file and a file that
\* does not parse both give None
LoadFile(file) ==
    IF file.state = "ok" THEN from_dict(file.data) ELSE NoCheckpoint

\* load_checkpoint(checkpoint_id): the named file, or latest.json when the
\* ID is None
load_checkpoint(dir, checkpoint_id) ==
    IF checkpoint_id = <<None, 0>>
      THEN LoadFile(dir.latest)
      ELSE IF checkpoint_id \in CheckpointIds
             THEN LoadFile(dir.files[checkpoint_id])
             ELSE NoCheckpoint

\* the <checkpoint_id>.json files the glob of the directory finds
GlobFiles(dir) == {id \in CheckpointIds : dir.files[id].state # "missing"}

\* the entry list_checkpoints makes of a file
ListEntry(file) ==
    [checkpoint_id |-> file.data.checkpoint_id,
     stage_name |-> file.data.stage_name,
     timestamp |-> file.data.timestamp]

\* the order of two isoformat texts of timestamps
IsoLess(t, u) == t[2] < u[2] \/ (t[2] = u[2] /\ t[3] < u[3])

\* checkpoints.sort(key=timestamp, reverse=True)
RECURSIVE SortNewestFirst(_)
SortNewestFirst(entries) ==
    IF entries = {} THEN <<>>
    ELSE LET newest == CHOOSE e \in entries :
                          \A f \in entries : ~IsoLess(e.timestamp, f.timestamp)
         IN  <<newest>> \o SortNewestFirst(entries \ {newest})

\* list_checkpoints: an entry per file but latest.json, newest first; any
\* file that does not parse makes the whole list empty
list_checkpoints(dir) ==
    IF \E id \in GlobFiles(dir) : dir.files[id].state # "ok"
      THEN <<>>
      ELSE SortNewestFirst({ListEntry(dir.files[id]) : id \in GlobFiles(dir)})

\* delete_checkpoint: the directory it leaves and what it returns
delete_checkpoint(dir, checkpoint_id) ==
    IF checkpoint_id \in GlobFiles(dir)
      THEN [dir |-> [dir EXCEPT !.files[checkpoint_id] = MissingFile],
            deleted |-> TRUE]
      ELSE [dir |-> dir, deleted |-> FALSE]

\* the loop of cleanup_old_checkpoints over checkpoints[keep_count:]
RECURSIVE DeleteAll(_, _)
DeleteAll(dir, entries) ==
    IF entries = <<>> THEN [dir |-> dir, deleted |-> 0]
    ELSE LET one == delete_checkpoint(dir, Head(entries).checkpoint_id)
             rest == DeleteAll(one.dir, Tail(entries))
         IN  [dir |-> rest.dir,
              deleted |-> rest.deleted + (IF one.deleted THEN 1 ELSE 0)]

\* cleanup_old_checkpoints(keep_count): the directory it leaves and the
\* count it returns
cleanup_old_checkpoints(dir, keep_count) ==
    LET checkpoints == list_checkpoints(dir)
    IN  IF Len(checkpoints) <= keep_count
          THEN [dir |-> dir, deleted |-> 0]
          ELSE DeleteAll(dir, SubSeq(checkpoints, keep_count + 1,
                                     Len(checkpoints)))

\* clear_all_checkpoints: every *.json of the directory is unlinked and
\* counted, latest.json too
clear_all_checkpoints(dir) ==
    [dir |-> EmptyCheckpointDir,
     deleted |-> Cardinality(GlobFiles(dir))
                   + (IF dir.latest.state # "missing" THEN 1 ELSE 0)]

\* the project of the manager that is used on its own
ManagerName == "proj"

\* a call on the manager: its name, its argument, the checkpoint, the
\* count or the list it returned and whether it raised
ManagerCall(op, args, ret, count, raised) ==
    [op |-> op, args |-> args, ret |-> ret, count |-> count, raised |-> raised,
     listed |-> <<>>]

InitManager ==
    /\ mgr_call = ManagerCall(None, LatestId, NoCheckpoint, 0, FALSE)
    /\ mgr_calls = 0

\* a ledger to save: one record of a failed call
SavedRuns ==
    <<[agent_name |-> "planner", input_data |-> "idea1", output_data |-> NoOutput,
       status |-> "failed", started_at |-> 0, completed |-> TRUE,
       error |-> NotFoundError("planner"), duration_seconds |-> -1]>>

\* one more call on the manager
ManagerCalls ==
    /\ mgr_calls < MaxManagerCalls
    /\ mgr_calls' = mgr_calls + 1

\* manager.save_checkpoint(stage_name, idea, completed_runs, project_path,
\* metadata)
SaveCheckpoint(stage_name, idea, runs, project_path, metadata, how) ==
    /\ ManagerCalls
    /\ LET c == Checkpoint(stage_name, idea, runs, project_path, metadata,
                           ck_now, ck_usec)
           saved == save_checkpoint(ckpt_store[ManagerName], c, how)
       IN  /\ ckpt_store' = [ckpt_store EXCEPT ![ManagerName] = saved.dir]
           /\ mgr_call' = ManagerCall("save_checkpoint", c.checkpoint_id,
                                      IF saved.raised THEN NoCheckpoint ELSE c,
                                      0, saved.raised)
    /\ ck_usec' = ck_usec + 1
    /\ UNCHANGED ck_now

\* manager.list_checkpoints()
ListCheckpoints ==
    /\ ManagerCalls
    /\ mgr_call' = [ManagerCall("list_checkpoints", LatestId, NoCheckpoint,
                                0, FALSE)
                      EXCEPT !.listed = list_checkpoints(ckpt_store[ManagerName])]
    /\ UNCHANGED <<ckpt_store, ck_now, ck_usec>>

\* manager.delete_checkpoint(checkpoint_id)
DeleteCheckpoint(checkpoint_id) ==
    /\ ManagerCalls
    /\ LET done == delete_checkpoint(ckpt_store[ManagerName], checkpoint_id)
       IN  /\ ckpt_store' = [ckpt_store EXCEPT ![ManagerName] = done.dir]
           /\ mgr_call' = ManagerCall("delete_checkpoint", checkpoint_id,
                                      NoCheckpoint,
                                      IF done.deleted THEN 1 ELSE 0, FALSE)
    /\ UNCHANGED <<ck_now, ck_usec>>

\* manager.cleanup_old_checkpoints(keep_count)
CleanupOldCheckpoints(keep_count) ==
    /\ ManagerCalls
    /\ LET done == cleanup_old_checkpoints(ckpt_store[ManagerName], keep_count)
       IN  /\ ckpt_store' = [ckpt_store EXCEPT ![ManagerName] = done.dir]
           /\ mgr_call' = ManagerCall("cleanup_old_checkpoints", keep_count,
                                      NoCheckpoint, done.deleted, FALSE)
    /\ UNCHANGED <<ck_now, ck_usec>>

\* manager.clear_all_checkpoints()
ClearAllCheckpoints ==
    /\ ManagerCalls
    /\ LET done == clear_all_checkpoints(ckpt_store[ManagerName])
       IN  /\ ckpt_store' = [ckpt_store EXCEPT ![ManagerName] = done.dir]
           /\ mgr_call' = ManagerCall("clear_all_checkpoints", 0, NoCheckpoint,
                                      done.deleted, FALSE)
    /\ UNCHANGED <<ck_now, ck_usec>>

-----------------------------------------------------------------------------
(* Orchestrator *)

\* the agents cli/main.py registers that run_factory executes
StageAgents == {"safety_guard", "planner", "architect", "implementer",
                "tester", "doc_writer", "git_ops"}

\* the runtimes an Orchestrator is built on: the full set of agents, or
\* only the safety guard
RegisteredSets == {StageAgents, {"safety_guard"}}

\* how an agent's execute may go for the caller
Outcomes == {"success", "raise", "timeout"}

\* the SafetyCheck output with approved = False
RejectedOutput(agent_name, input_data) == <<"rejected", agent_name, input_data>>

\* ProjectResult(success=False, project_name="", agent_runs=[], errors=[])
NewResult ==
    [success |-> FALSE, project_name |-> "", project_path |-> None,
     agent_runs |-> <<>>, errors |-> <<>>, finalized |-> FALSE]

NoRecovery ==
    [failed_agent |-> None, failed_stage |-> None, can_resume |-> FALSE,
     last_checkpoint |-> <<None, 0>>, recovery_options |-> <<>>]

\* an entry of result.errors: its text and the recovery options it lists
ErrorMessage(text, options) == [text |-> text, options |-> options]

InitOrchestrator ==
    /\ orch_pc = "idle"
    /\ orch_idea = None
    /\ result = NewResult
    /\ completed_runs = <<>>
    /\ checkpoint_manager = None
    /\ ckpt_store = [p \in Projects |-> EmptyCheckpointDir]
    /\ ck_now = 0
    /\ ck_usec = 0
    /\ orch_runs = 0
    /\ recovery = NoRecovery
    /\ project_files = {}

\* runtime.execute_agent(name, input) seen from its caller, who blocks until
\* the record is returned: the record of agent_runtime.py for the way the
\* agent's execute went (the timeout is the default one)
ExecuteAgent(agent_name, input_data, outcome, output) ==
    IF agent_name \notin agents
      THEN NotFoundRun(agent_name, input_data, rt_calls)
      ELSE ReportRun(AgentRun(agent_name, input_data, "running", rt_calls),
                     [agent_name |-> agent_name, input_data |-> input_data,
                      timeout_seconds |-> EffectiveTimeout(NoneTimeout)],
                     outcome = "timeout",
                     [EmptyContainer EXCEPT !.output = output,
                                            !.error = (outcome = "raise")],
                     0)

\* the runtime's own state after that call
RuntimeAfter(run) ==
    /\ execution_history' =
         IF run.agent_name \in agents THEN Append(execution_history, run)
                                      ELSE HistoryAfterNotFound(execution_history, run)
    /\ rt_returned' = Append(rt_returned, run)
    /\ rt_calls' = rt_calls + 1
    /\ rt_abandoned' = IF run.error.kind = "TIMEOUT" THEN rt_abandoned + 1
                                                     ELSE rt_abandoned
    /\ UNCHANGED <<agents, rt_objects, rt_pc, rt_call, rt_run, rt_worker, result_container,
                   rt_elapsed, rt_alive, rt_raised>>

\* a snapshot that misses the record appended last
CheckpointRunsStale(runs) == SubSeq(runs, 1, Len(runs) - 1)

\* the snapshot of the ledger Orchestrator.checkpoint hands to
\* save_checkpoint: self._completed_runs.copy()
CheckpointRuns(runs) == runs

\* the project a new CheckpointManager is created for (lines 338-340)
ManagerProject(metadata) ==
    IF metadata \in Projects THEN metadata ELSE "unknown"

\* Orchestrator.checkpoint as a function: the manager it uses (created on
\* first use), the store after the save, and whether the save raised.
\* metadata is the project_name the metadata carries, or None
checkpoint(manager, store, stage, idea, runs, project_path, metadata, how) ==
    LET project == IF manager = None THEN ManagerProject(metadata) ELSE manager
        c == Checkpoint(stage, idea, CheckpointRuns(runs), project_path,
                        metadata, ck_now, ck_usec)
        saved == save_checkpoint(store[project], c, how)
    IN  [manager |-> project,
         store |-> [store EXCEPT ![project] = saved.dir],
         raised |-> saved.raised]

\* resume is offered whatever is stored
handle_failureAlwaysResume(manager, store, agent_name, stage, offer_recovery) ==
    [failed_agent |-> agent_name, failed_stage |-> stage,
     can_resume |-> TRUE,
     last_checkpoint |-> LatestId,
     recovery_options |->
         <<"resume">>
           \o (IF offer_recovery THEN <<"retry", "skip", "abort">> ELSE <<>>)]

\* handle_failure: loads the latest checkpoint and lists the recovery
\* options; it changes nothing
handle_failure(manager, store, agent_name, stage, offer_recovery) ==
    LET last == IF manager = None THEN NoCheckpoint
                ELSE load_checkpoint(store[manager], <<None, 0>>)
        found == last # NoCheckpoint
    IN  [failed_agent |-> agent_name, failed_stage |-> stage,
         can_resume |-> found,
         last_checkpoint |-> last.checkpoint_id,
         recovery_options |->
             (IF found THEN <<"resume">> ELSE <<>>)
               \o (IF offer_recovery THEN <<"retry", "skip", "abort">> ELSE <<>>)]

\* _finalize_result
finalize_result(r) == [r EXCEPT !.finalized = TRUE]

\* lines 85-100: run_factory starts a fresh result; self._completed_runs is
\* left as it is
RunStartWithin(idea, bound) ==
    /\ orch_pc = "idle"
    /\ orch_runs < bound
    /\ orch_runs' = orch_runs + 1
    /\ orch_idea' = idea
    /\ result' = NewResult
    /\ orch_pc' = "safety"
    /\ UNCHANGED <<completed_runs, checkpoint_manager, ckpt_store, ck_now,
                   ck_usec, recovery, project_files, rt_vars>>

RunStart(idea) == RunStartWithin(idea, MaxRuns)

\* the failure of the pipeline_failed checkpoint is raised to the caller
RunFailsCheckpointRaises(r, runs, manager, store, project_path, text, how) ==
    LET failed == [r EXCEPT !.success = FALSE,
                            !.errors = Append(@, ErrorMessage(text, <<>>))]
        ck == checkpoint(manager, store, "pipeline_failed", orch_idea, runs,
                         project_path, None, how)
    IN  /\ result' = IF ck.raised THEN failed ELSE finalize_result(failed)
        /\ checkpoint_manager' = ck.manager
        /\ ckpt_store' = ck.store
        /\ ck_usec' = ck_usec + 1
        /\ orch_pc' = IF ck.raised THEN "raised" ELSE "idle"

\* the exception handler of run_factory, lines 283-296: the error is
\* recorded, a pipeline_failed checkpoint is tried and its own failure
\* swallowed, and the result is finalized
RunFails(r, runs, manager, store, project_path, text, how) ==
    LET failed == [r EXCEPT !.success = FALSE,
                            !.errors = Append(@, ErrorMessage(text, <<>>))]
        ck == checkpoint(manager, store, "pipeline_failed", orch_idea, runs,
                         project_path, None, how)
    IN  /\ result' = finalize_result(failed)
        /\ checkpoint_manager' = ck.manager
        /\ ckpt_store' = ck.store
        /\ ck_usec' = ck_usec + 1
        /\ orch_pc' = "idle"

\* the stage to run after a critical stage's agent succeeded, and after its
\* checkpoint was saved
CheckpointOf(stage) ==
    CASE stage = "safety" -> "safety_validated"
      [] stage = "planning" -> "planning_complete"
      [] stage = "architecture" -> "architecture_complete"
      [] stage = "implementation" -> "implementation_complete"
      [] OTHER -> "pipeline_complete"

AgentOf(stage) ==
    CASE stage = "safety" -> "safety_guard"
      [] stage = "planning" -> "planner"
      [] stage = "architecture" -> "architect"
      [] stage = "implementation" -> "implementer"
      [] stage = "testing" -> "tester"
      [] stage = "documentation" -> "doc_writer"
      [] OTHER -> "git_ops"

FailureText(stage) ==
    CASE stage = "safety" -> "Safety check failed"
      [] stage = "planning" -> "Planning failed"
      [] stage = "architecture" -> "Architecture design failed"
      [] OTHER -> "Code implementation failed"

\* run_factory is about to call self.checkpoint after a stage
CheckpointPc(stage) ==
    CASE stage = "safety" -> "checkpoint_safety"
      [] stage = "planning" -> "checkpoint_planning"
      [] stage = "architecture" -> "checkpoint_architecture"
      [] stage = "implementation" -> "checkpoint_implementation"
      [] OTHER -> "checkpoint_complete"

\* the architect is run before the planner
AfterCheckpointArchitectFirst(stage) ==
    CASE stage = "safety" -> "architecture"
      [] stage = "architecture" -> "planning"
      [] stage = "planning" -> "implementation"
      [] stage = "implementation" -> "testing"
      [] OTHER -> "idle"

\* where run_factory goes after the checkpoint of a stage
AfterCheckpoint(stage) ==
    CASE stage = "safety" -> "planning"
      [] stage = "planning" -> "architecture"
      [] stage = "architecture" -> "implementation"
      [] stage = "implementation" -> "testing"
      [] OTHER -> "idle"

\* where run_factory goes after the agent of a critical stage succeeded
AfterSuccess(stage) ==
    IF stage = "implementation" THEN "write_files" ELSE CheckpointPc(stage)

CriticalStages == {"safety", "planning", "architecture", "implementation"}

\* only the safety stage aborts the run
CriticalRunAbortsOnlySafety(stage, run) ==
    /\ stage = "safety"
    /\ \/ run.status # "success"
       \/ run.output_data[1] = "rejected"

\* the tests run_factory makes on the record of a critical stage (lines
\* 109, 119, 140, 163, 188): the status is not success, or the safety
\* check is not approved
CriticalRunAborts(stage, run) ==
    \/ run.status # "success"
    \/ stage = "safety" /\ run.output_data[1] = "rejected"

\* after a critical stage's record was appended (lines 109-125, 140-145,
\* 163-168, 188-193): abort on a record that is not a success or an idea
\* that is not approved, else go on
AfterCriticalRun(stage, run, r) ==
    IF ~CriticalRunAborts(stage, run)
      THEN /\ result' = IF stage = "architecture"
                          THEN [r EXCEPT !.project_name = "proj"] ELSE r
           /\ orch_pc' = AfterSuccess(stage)
           /\ UNCHANGED recovery
    ELSE IF run.status # "success"
      THEN LET rec == handle_failure(checkpoint_manager, ckpt_store,
                                     AgentOf(stage), stage, TRUE)
               errs == Append(r.errors, ErrorMessage(FailureText(stage), <<>>))
           IN  /\ recovery' = rec
               /\ result' = finalize_result(
                    [r EXCEPT !.errors =
                       IF stage = "safety"
                         THEN Append(errs, ErrorMessage("Recovery options",
                                                        rec.recovery_options))
                         ELSE errs])
               /\ orch_pc' = "idle"
    ELSE /\ result' = finalize_result(
              [r EXCEPT !.errors = Append(@,
                 ErrorMessage("Idea rejected by SafetyGuard", <<>>))])
         /\ orch_pc' = "idle"
         /\ UNCHANGED recovery

\* a critical stage: the agent is executed, its record appended to the
\* result and to self._completed_runs, and the record decides
CriticalStage(stage, outcome, output) ==
    /\ orch_pc = stage
    /\ LET run == ExecuteAgent(AgentOf(stage), orch_idea, outcome, output)
       IN  /\ RuntimeAfter(run)
           /\ completed_runs' = Append(completed_runs, run)
           /\ AfterCriticalRun(stage, run,
                [result EXCEPT !.agent_runs = Append(@, run)])
    /\ UNCHANGED <<orch_idea, checkpoint_manager, ckpt_store, ck_now, ck_usec,
                   orch_runs, project_files>>

\* the metadata's project_name of the checkpoint of a stage
MetadataOf(stage) ==
    IF stage \in {"architecture", "complete"} THEN "proj" ELSE None

\* the project_path handed to the checkpoint of a stage
ProjectPathOf(stage) ==
    IF stage \in {"implementation", "complete"} THEN "proj" ELSE None

\* self.checkpoint(...) after a stage (lines 132, 151, 177, 208, 273): a
\* save that raises lands in the exception handler
CheckpointStage(stage, how, howFailed) ==
    /\ orch_pc = CheckpointPc(stage)
    /\ LET ck == checkpoint(checkpoint_manager, ckpt_store, CheckpointOf(stage),
                            orch_idea, completed_runs, ProjectPathOf(stage),
                            MetadataOf(stage), how)
       IN  IF ck.raised
             THEN RunFails(result, completed_runs, ck.manager, ck.store,
                           result.project_path, "checkpoint error", howFailed)
             ELSE /\ ck_usec' = ck_usec + 1
                  /\ checkpoint_manager' = ck.manager
                  /\ ckpt_store' = ck.store
                  /\ result' = IF stage = "complete"
                                 THEN finalize_result([result EXCEPT !.success = TRUE])
                                 ELSE result
                  /\ orch_pc' = AfterCheckpoint(stage)
    /\ UNCHANGED <<orch_idea, completed_runs, ck_now, orch_runs, recovery,
                   project_files, rt_vars>>

\* lines 198-205: the project directory is made and the code files written
\* through CodeWriter; a failed write raises RuntimeError
WriteFiles(ok, howFailed) ==
    /\ orch_pc = "write_files"
    /\ LET r == [result EXCEPT !.project_path = "proj"]
       IN  IF ok
             THEN /\ result' = r
                  /\ project_files' = project_files \cup {"code"}
                  /\ orch_pc' = CheckpointPc("implementation")
                  /\ UNCHANGED <<checkpoint_manager, ckpt_store, ck_usec>>
             ELSE /\ RunFails(r, completed_runs, checkpoint_manager, ckpt_store,
                              "proj", "Failed to write project files", howFailed)
                  /\ UNCHANGED project_files
    /\ UNCHANGED <<orch_idea, completed_runs, ck_now, orch_runs, recovery,
                   rt_vars>>

\* lines 212-225: the tester stage; its failure is a warning
TestingStage(outcome) ==
    /\ orch_pc = "testing"
    /\ LET run == ExecuteAgent("tester", orch_idea, outcome,
                               OutputOf("tester", orch_idea))
       IN  /\ RuntimeAfter(run)
           /\ completed_runs' = Append(completed_runs, run)
           /\ result' = [result EXCEPT !.agent_runs = Append(@, run)]
    /\ orch_pc' = "documentation"
    /\ UNCHANGED <<orch_idea, checkpoint_manager, ckpt_store, ck_now, ck_usec,
                   orch_runs, recovery, project_files>>

\* lines 227-242: the doc_writer stage; its failure is a warning, its files
\* are written through CodeWriter, and a failed write raises
DocumentationStage(outcome, ok, howFailed) ==
    /\ orch_pc = "documentation"
    /\ LET run == ExecuteAgent("doc_writer", orch_idea, outcome,
                               OutputOf("doc_writer", orch_idea))
           r == [result EXCEPT !.agent_runs = Append(@, run)]
           runs == Append(completed_runs, run)
       IN  /\ RuntimeAfter(run)
           /\ completed_runs' = runs
           /\ IF run.status = "success" /\ ~ok
                THEN /\ RunFails(r, runs, checkpoint_manager, ckpt_store,
                                 "proj", "Failed to write project files", howFailed)
                     /\ UNCHANGED project_files
                ELSE /\ result' = r
                     /\ project_files' = IF run.status = "success"
                                           THEN project_files \cup {"docs"}
                                           ELSE project_files
                     /\ orch_pc' = "git_init"
                     /\ UNCHANGED <<checkpoint_manager, ckpt_store, ck_usec>>
    /\ UNCHANGED <<orch_idea, ck_now, orch_runs, recovery>>

\* lines 244-270: git_ops init, and only after its success git_ops commit
GitInitStage(outcome) ==
    /\ orch_pc = "git_init"
    /\ LET run == ExecuteAgent("git_ops", orch_idea, outcome,
                               OutputOf("git_ops", orch_idea))
       IN  /\ RuntimeAfter(run)
           /\ completed_runs' = Append(completed_runs, run)
           /\ result' = [result EXCEPT !.agent_runs = Append(@, run)]
           /\ orch_pc' = IF run.status = "success" THEN "git_commit"
                                                   ELSE CheckpointPc("complete")
    /\ UNCHANGED <<orch_idea, checkpoint_manager, ckpt_store, ck_now, ck_usec,
                   orch_runs, recovery, project_files>>

GitCommitStage(outcome) ==
    /\ orch_pc = "git_commit"
    /\ LET run == ExecuteAgent("git_ops", orch_idea, outcome,
                               OutputOf("git_ops", orch_idea))
       IN  /\ RuntimeAfter(run)
           /\ completed_runs' = Append(completed_runs, run)
           /\ result' = [result EXCEPT !.agent_runs = Append(@, run)]
    /\ orch_pc' = CheckpointPc("complete")
    /\ UNCHANGED <<orch_idea, checkpoint_manager, ckpt_store, ck_now, ck_usec,
                   orch_runs, recovery, project_files>>

\* a call on the Orchestrator: its name, its arguments, the checkpoint it
\* returned and whether it raised
ApiCall(op, args, ret, raised) ==
    [op |-> op, args |-> args, ret |-> ret, raised |-> raised]

InitApi ==
    /\ orch_call = ApiCall(None, LatestId, NoCheckpoint, FALSE)
    /\ api_calls = 0

\* the checkpoint is returned and the ledger left as it was
resume_from_checkpointKeepsLedger(manager, store, runs, checkpoint_id) ==
    [checkpoint |-> IF manager = None THEN NoCheckpoint
                    ELSE load_checkpoint(store[manager], checkpoint_id),
     runs |-> runs]

\* resume_from_checkpoint as a function: the checkpoint it returns and the
\* ledger it leaves
resume_from_checkpoint(manager, store, runs, checkpoint_id) ==
    LET c == IF manager = None THEN NoCheckpoint
             ELSE load_checkpoint(store[manager], checkpoint_id)
    IN  [checkpoint |-> c,
         runs |-> IF c # NoCheckpoint THEN c.completed_runs ELSE runs]

\* a call of resume_from_checkpoint between two runs
ResumeCall(checkpoint_id) ==
    /\ orch_pc = "idle"
    /\ LET resumed == resume_from_checkpoint(checkpoint_manager, ckpt_store,
                                             completed_runs, checkpoint_id)
       IN  /\ completed_runs' = resumed.runs
           /\ orch_call' = ApiCall("resume_from_checkpoint", checkpoint_id,
                                   resumed.checkpoint, FALSE)
    /\ UNCHANGED <<orch_pc, orch_idea, result, checkpoint_manager, ckpt_store,
                   ck_now, ck_usec, orch_runs, recovery, project_files, rt_vars>>

\* handle_failure aborts: it empties the ledger and drops the latest
\* checkpoint
HandleFailureCallAborts(agent_name, stage, offer_recovery) ==
    /\ orch_pc = "idle"
    /\ recovery' = handle_failure(checkpoint_manager, ckpt_store, agent_name,
                                  stage, offer_recovery)
    /\ orch_call' = ApiCall("handle_failure",
                            [agent_name |-> agent_name, stage |-> stage,
                             offer_recovery |-> offer_recovery],
                            NoCheckpoint, FALSE)
    /\ completed_runs' = <<>>
    /\ ckpt_store' = [p \in Projects |->
                        [ckpt_store[p] EXCEPT !.latest = MissingFile]]
    /\ UNCHANGED <<orch_pc, orch_idea, result, checkpoint_manager,
                   ck_now, ck_usec, orch_runs, project_files, rt_vars>>

\* a call of handle_failure between two runs
HandleFailureCall(agent_name, stage, offer_recovery) ==
    /\ orch_pc = "idle"
    /\ recovery' = handle_failure(checkpoint_manager, ckpt_store, agent_name,
                                  stage, offer_recovery)
    /\ orch_call' = ApiCall("handle_failure",
                            [agent_name |-> agent_name, stage |-> stage,
                             offer_recovery |-> offer_recovery],
                            NoCheckpoint, FALSE)
    /\ UNCHANGED <<orch_pc, orch_idea, result, completed_runs, checkpoint_manager,
                   ckpt_store, ck_now, ck_usec, orch_runs, project_files, rt_vars>>

\* a call of checkpoint between two runs; a save that raises raises to the
\* caller
CheckpointCall(stage, idea, metadata, how) ==
    /\ orch_pc = "idle"
    /\ LET ck == checkpoint(checkpoint_manager, ckpt_store, stage, idea,
                            completed_runs, None, metadata, how)
           c == Checkpoint(stage, idea, CheckpointRuns(completed_runs), None,
                           metadata, ck_now, ck_usec)
       IN  /\ checkpoint_manager' = ck.manager
           /\ ckpt_store' = ck.store
           /\ orch_call' = ApiCall("checkpoint",
                                   [stage |-> stage, metadata |-> metadata],
                                   IF ck.raised THEN NoCheckpoint ELSE c,
                                   ck.raised)
    /\ ck_usec' = ck_usec + 1
    /\ UNCHANGED <<orch_pc, orch_idea, result, completed_runs, ck_now, orch_runs,
                   recovery, project_files, rt_vars>>

\* a second passes between two calls on the Orchestrator
ClockTick ==
    /\ orch_pc = "idle"
    /\ ck_now < MaxTime
    /\ ck_now' = ck_now + 1
    /\ ck_usec' = 0
    /\ UNCHANGED <<orch_pc, orch_idea, result, completed_runs, checkpoint_manager,
                   ckpt_store, orch_runs, recovery, project_files, rt_vars>>

-----------------------------------------------------------------------------
(* Two run_factory calls, each on an Orchestrator of its own *)

RunIds == {"run1", "run2"}

\* spec.name of the project each run builds
RunProject(r) == IF r = "run1" THEN "proj" ELSE "proj2"

\* the idea each run was given
RunIdea(r) == IF r = "run1" THEN "idea1" ELSE "idea2"

\* the stages run_factory saves a checkpoint after, in order (lines 132,
\* 151, 177, 208, 273)
RunStages == <<"safety", "planning", "architecture", "implementation", "complete">>

\* Orchestrator.__init__, lines 61-62, for each run
InitProjects == pr_runs = [r \in RunIds |-> [manager |-> None, saved |-> 0]]

\* self._completed_runs of a run whose first n stages succeeded
RunLedger(r, n) ==
    [i \in 1..n |->
        [AgentRun(AgentOf(RunStages[i]), RunIdea(r), "success", 0) EXCEPT
            !.output_data = OutputOf(AgentOf(RunStages[i]), RunIdea(r)),
            !.completed = TRUE,
            !.duration_seconds = 0]]

\* the project_name the metadata of a stage's checkpoint carries, or None
RunMetadata(r, stage) ==
    IF MetadataOf(stage) = None THEN None ELSE RunProject(r)

\* the next self.checkpoint(...) call of a run whose stages succeed
RunCheckpoint(r) ==
    /\ pr_runs[r].saved < Len(RunStages)
    /\ LET stage == RunStages[pr_runs[r].saved + 1]
           ck == checkpoint(pr_runs[r].manager, ckpt_store, CheckpointOf(stage),
                            RunIdea(r), RunLedger(r, pr_runs[r].saved + 1),
                            IF ProjectPathOf(stage) = None THEN None
                                                           ELSE RunProject(r),
                            RunMetadata(r, stage), "ok")
       IN  /\ ckpt_store' = ck.store
           /\ pr_runs' = [pr_runs EXCEPT ![r] = [manager |-> ck.manager,
                                                 saved |-> @.saved + 1]]
    /\ ck_usec' = ck_usec + 1
    /\ UNCHANGED <<orch_pc, orch_idea, result, completed_runs, checkpoint_manager,
                   ck_now, orch_runs, recovery, project_files, rt_vars>>

-----------------------------------------------------------------------------
(* Specifications *)

\* the variables the runtime's specification leaves alone
NotRuntime == <<txn_vars, orch_vars, faults, api_vars, mgr_vars, wr_vars, view_vars, pr_vars>>

\* the objects a caller offers under a name: agent1 first, any object once
\* the name is taken
RegisteredNext(name) == IF name \in agents THEN AgentObjects ELSE {"agent1"}

RegisterStep ==
    /\ \E name \in AgentNames :
          \E agent \in RegisteredNext(name) : register_agent(name, agent)
    /\ UNCHANGED NotRuntime

CallNotFound ==
    /\ rt_calls < MaxCalls
    /\ \E name \in AgentNames, input \in Inputs, t \in TimeoutArgs :
          ExecuteAgentNotFound(name, input, t)
    /\ UNCHANGED NotRuntime

CallStart ==
    /\ rt_calls < MaxCalls
    /\ \E name \in AgentNames, input \in Inputs, t \in TimeoutArgs :
          ExecuteAgentStart(name, input, t)
    /\ UNCHANGED NotRuntime

WorkerStep == (WorkerReturn \/ WorkerRaise) /\ UNCHANGED NotRuntime

TickStep == Tick /\ UNCHANGED NotRuntime

JoinStep == JoinReturn /\ UNCHANGED NotRuntime

ReportStep == ExecuteAgentReport /\ UNCHANGED NotRuntime

AbandonedStep ==
    /\ \E ending \in WorkerEndings : AbandonedWorkerEnds(ending)
    /\ UNCHANGED NotRuntime

NextRuntime ==
    \/ RegisterStep
    \/ CallNotFound
    \/ CallStart
    \/ WorkerStep
    \/ TickStep
    \/ JoinStep
    \/ ReportStep
    \/ AbandonedStep

\* a runtime and an Orchestrator that are never used
InitRuntimeIdle ==
    /\ InitRuntime /\ InitOrchestrator /\ faults = 0 /\ InitApi /\ InitManager
    /\ InitWriter /\ InitView /\ InitProjects

\* a transaction that is never begun
InitTxnIdle ==
    /\ txn = NewTransaction(TRUE)
    /\ fs = [work |-> EmptyRoot, stage |-> NoRoot, backup |-> NoRoot]
    /\ txn_pc = "new"
    /\ txn_exc = None
    /\ work0 = EmptyRoot

\* the runtime alone
InitSpecRuntime == InitRuntimeIdle /\ InitTxnIdle

SpecRuntime == InitSpecRuntime /\ [][NextRuntime]_vars

\* the caller's thread is scheduled and time passes; nothing makes the
\* worker end
LiveRuntime ==
    /\ InitSpecRuntime
    /\ [][NextRuntime]_vars
    /\ WF_vars(TickStep)
    /\ WF_vars(JoinStep)
    /\ WF_vars(ReportStep)

\* the variables a caller of get_execution_history leaves alone
NotHistory == <<txn_vars, orch_vars, faults, api_vars, mgr_vars, wr_vars, pr_vars>>

GetHistoryStep == GetExecutionHistory /\ UNCHANGED NotHistory

MutateViewStep == (\E op \in ViewOps : MutateView(op)) /\ UNCHANGED NotHistory

NextHistory ==
    \/ CallNotFound
    \/ CallStart
    \/ WorkerStep
    \/ TickStep
    \/ JoinStep
    \/ ReportStep
    \/ AbandonedStep
    \/ GetHistoryStep
    \/ MutateViewStep

\* a runtime with one agent registered
InitSpecHistory ==
    /\ RuntimeWith({"alpha"})
    /\ InitOrchestrator /\ faults = 0 /\ InitApi /\ InitManager
    /\ InitWriter /\ InitView /\ InitProjects /\ InitTxnIdle

\* execute_agent calls interleaved with a caller that reads the history
\* and changes the list it was given
SpecHistory == InitSpecHistory /\ [][NextHistory]_vars

\* the variables the two runs leave alone
NotProjects == <<txn_vars, faults, api_vars, mgr_vars, wr_vars, view_vars>>

RunCheckpointStep == (\E r \in RunIds : RunCheckpoint(r)) /\ UNCHANGED NotProjects

ProjectsClockStep == ClockTick /\ UNCHANGED <<NotProjects, pr_vars>>

NextProjects ==
    \/ RunCheckpointStep
    \/ ProjectsClockStep

InitSpecProjects == InitRuntimeIdle /\ InitTxnIdle

\* two runs for different projects save their checkpoints in any
\* interleaving
SpecProjects == InitSpecProjects /\ [][NextProjects]_vars

\* the variables the transaction's specification leaves alone
NotTxn == <<rt_vars, orch_vars, faults, api_vars, mgr_vars, wr_vars, view_vars, pr_vars>>

EnterStep ==
    /\ \E m \in BOOLEAN : Enter(m)
    /\ UNCHANGED NotTxn

CreateFileStep ==
    /\ \E p \in Paths, c \in NewContents : create_file(p, c)
    /\ UNCHANGED NotTxn

CreateDirectoryStep ==
    /\ \E d \in Dirs : create_directory(d)
    /\ UNCHANGED NotTxn

ModifyFileStep ==
    /\ \E p \in Paths, c \in ModifiedContents : modify_file(p, c)
    /\ UNCHANGED NotTxn

DeleteFileStep ==
    /\ \E p \in Paths : delete_file(p)
    /\ UNCHANGED NotTxn

CommitStep == CommitCall /\ UNCHANGED NotTxn

RollbackStep == RollbackCall /\ UNCHANGED NotTxn

ExitNormalStep == ExitNormal /\ UNCHANGED NotTxn

ExitExceptionStep == ExitException /\ UNCHANGED NotTxn

NextTxn ==
    \/ EnterStep
    \/ CreateFileStep
    \/ CreateDirectoryStep
    \/ ModifyFileStep
    \/ DeleteFileStep
    \/ CommitStep
    \/ RollbackStep
    \/ ExitNormalStep
    \/ ExitExceptionStep

\* one transaction alone
InitSpecTxn == InitTxn /\ InitRuntimeIdle

SpecTxn == InitSpecTxn /\ [][NextTxn]_vars

\* the variables the writer's specification leaves alone
NotWriter == <<rt_vars, orch_vars, faults, api_vars, mgr_vars, view_vars, pr_vars>>

WriteProjectFilesStep ==
    /\ \E files \in FileDicts, enable_staging \in BOOLEAN,
          stop \in 0..Cardinality(Paths) :
          /\ stop <= Len(files)
          /\ WriteProjectFiles(files, enable_staging, stop)
    /\ UNCHANGED NotWriter

NextWriter == WriteProjectFilesStep

InitSpecWriter == InitTxn /\ InitRuntimeIdle

\* one CodeWriter on a working directory
SpecWriter == InitSpecWriter /\ [][NextWriter]_vars

\* the variables the orchestrator's specification leaves alone
NotOrchestrator == <<txn_vars, mgr_vars, wr_vars, view_vars, pr_vars>>

\* n more failures happen, within the number of failures of a behaviour
Failures(n) ==
    /\ faults + n <= MaxFaults
    /\ faults' = faults + n

\* 1 for a failure, 0 for none
FailureOf(failed) == IF failed THEN 1 ELSE 0

\* the ways the pipeline_failed save may go after the failure of cause
FailedSaveRuns(cause) == IF cause THEN SaveRuns ELSE {"ok"}

RunStartStep ==
    /\ \E idea \in Ideas : RunStart(idea)
    /\ orch_call' = ApiCall("run_factory", LatestId, NoCheckpoint, FALSE)
    /\ UNCHANGED <<NotOrchestrator, faults, api_calls>>

SafetyStep ==
    /\ \E outcome \in Outcomes :
         \E output \in IF outcome = "success"
                         THEN {OutputOf("safety_guard", orch_idea),
                               RejectedOutput("safety_guard", orch_idea)}
                         ELSE {NoOutput} :
            /\ CriticalStage("safety", outcome, output)
            /\ Failures(FailureOf(outcome # "success"))
    /\ UNCHANGED <<NotOrchestrator, api_vars>>

CriticalStep ==
    /\ \E stage \in CriticalStages \ {"safety"}, outcome \in Outcomes :
          /\ CriticalStage(stage, outcome,
                           IF outcome = "success"
                             THEN OutputOf(AgentOf(stage), orch_idea)
                             ELSE NoOutput)
          /\ Failures(FailureOf(outcome # "success"))
    /\ UNCHANGED <<NotOrchestrator, api_vars>>

CheckpointStep ==
    /\ \E stage \in CriticalStages \cup {"complete"}, how \in SaveRuns :
         \E howFailed \in FailedSaveRuns(how # "ok") :
            /\ CheckpointStage(stage, how, howFailed)
            /\ Failures(FailureOf(how # "ok") + FailureOf(howFailed # "ok"))
    /\ UNCHANGED <<NotOrchestrator, api_vars>>

WriteFilesStep ==
    /\ \E ok \in BOOLEAN :
         \E howFailed \in FailedSaveRuns(~ok) :
            /\ WriteFiles(ok, howFailed)
            /\ Failures(FailureOf(~ok) + FailureOf(howFailed # "ok"))
    /\ UNCHANGED <<NotOrchestrator, api_vars>>

TestingStep ==
    /\ \E outcome \in Outcomes :
          /\ TestingStage(outcome)
          /\ Failures(FailureOf(outcome # "success"))
    /\ UNCHANGED <<NotOrchestrator, api_vars>>

DocumentationStep ==
    /\ \E outcome \in Outcomes :
         \E ok \in IF outcome = "success" THEN BOOLEAN ELSE {TRUE} :
           \E howFailed \in FailedSaveRuns(~ok) :
              /\ DocumentationStage(outcome, ok, howFailed)
              /\ Failures(FailureOf(outcome # "success") + FailureOf(~ok)
                            + FailureOf(howFailed # "ok"))
    /\ UNCHANGED <<NotOrchestrator, api_vars>>

GitInitStep ==
    /\ \E outcome \in Outcomes :
          /\ GitInitStage(outcome)
          /\ Failures(FailureOf(outcome # "success"))
    /\ UNCHANGED <<NotOrchestrator, api_vars>>

GitCommitStep ==
    /\ \E outcome \in Outcomes :
          /\ GitCommitStage(outcome)
          /\ Failures(FailureOf(outcome # "success"))
    /\ UNCHANGED <<NotOrchestrator, api_vars>>

ClockStep == ClockTick /\ UNCHANGED <<NotOrchestrator, faults, api_vars>>

\* the checkpoint IDs resume_from_checkpoint is called with
ResumeIds ==
    {LatestId} \cup ({"safety_validated", "planning_complete"} \X (0..MaxTime))

\* one more direct call, within the number of direct calls of a behaviour
ApiCalls ==
    /\ api_calls < MaxApiCalls
    /\ api_calls' = api_calls + 1

ResumeStep ==
    /\ \E checkpoint_id \in ResumeIds : ResumeCall(checkpoint_id)
    /\ ApiCalls
    /\ UNCHANGED <<NotOrchestrator, faults>>

HandleFailureStep ==
    /\ \E stage \in {"planning"}, offer_recovery \in BOOLEAN :
          HandleFailureCall(AgentOf(stage), stage, offer_recovery)
    /\ ApiCalls
    /\ UNCHANGED <<NotOrchestrator, faults>>

CheckpointCallStep ==
    /\ \E stage \in {"planning_complete"}, idea \in Ideas,
          metadata \in {None, "proj"}, how \in SaveRuns :
          /\ CheckpointCall(stage, idea, metadata, how)
          /\ Failures(FailureOf(how # "ok"))
    /\ ApiCalls
    /\ UNCHANGED NotOrchestrator

Next ==
    \/ RunStartStep
    \/ SafetyStep
    \/ CriticalStep
    \/ CheckpointStep
    \/ WriteFilesStep
    \/ TestingStep
    \/ DocumentationStep
    \/ GitInitStep
    \/ GitCommitStep
    \/ ClockStep

\* an Orchestrator on a runtime whose agents are registered
InitSpec ==
    /\ \E registered \in RegisteredSets : RuntimeWith(registered)
    /\ InitOrchestrator
    /\ faults = 0
    /\ InitApi
    /\ InitManager
    /\ InitWriter
    /\ InitView
    /\ InitProjects
    /\ InitTxnIdle

Spec == InitSpec /\ [][Next]_vars

\* a step of run_factory in which nothing fails
QuietRunStep ==
    /\ \/ SafetyStep
       \/ CriticalStep
       \/ CheckpointStep
       \/ WriteFilesStep
       \/ TestingStep
       \/ DocumentationStep
       \/ GitInitStep
       \/ GitCommitStep
    /\ faults' = faults

\* the variables the manager's specification leaves alone
NotManager ==
    <<rt_vars, txn_vars, api_vars, wr_vars, view_vars, pr_vars, orch_pc, orch_idea, result, completed_runs,
      checkpoint_manager, orch_runs, recovery, project_files>>

\* the stage names the manager is asked to save under
SaveStages == {"safety_validated", "planning_complete"}

\* the optional arguments of a save: both left out, or both given
SaveOptions ==
    {[project_path |-> None, metadata |-> None],
     [project_path |-> "proj", metadata |-> "proj"]}

SaveStep ==
    /\ \E stage_name \in SaveStages, idea \in Ideas, opt \in SaveOptions,
          how \in SaveRuns :
          /\ SaveCheckpoint(stage_name, idea, SavedRuns, opt.project_path,
                            opt.metadata, how)
          /\ Failures(FailureOf(how # "ok"))
    /\ UNCHANGED NotManager

DeleteStep ==
    /\ \E checkpoint_id \in SaveStages \X (0..MaxTime) :
          DeleteCheckpoint(checkpoint_id)
    /\ UNCHANGED <<NotManager, faults>>

CleanupStep ==
    /\ \E keep_count \in 0..2 : CleanupOldCheckpoints(keep_count)
    /\ UNCHANGED <<NotManager, faults>>

ClearAllStep == ClearAllCheckpoints /\ UNCHANGED <<NotManager, faults>>

ListStep == ListCheckpoints /\ UNCHANGED <<NotManager, faults>>

NextManager ==
    \/ SaveStep
    \/ DeleteStep
    \/ CleanupStep
    \/ ClearAllStep
    \/ ListStep
    \/ ClockStep

\* a CheckpointManager used on its own for one project
InitSpecManager == InitRuntimeIdle /\ InitTxnIdle

SpecManager == InitSpecManager /\ [][NextManager]_vars

\* run_factory called again on the same Orchestrator
RepeatStartStep ==
    /\ \E idea \in Ideas : RunStartWithin(idea, MaxRuns + 1)
    /\ orch_call' = ApiCall("run_factory", LatestId, NoCheckpoint, FALSE)
    /\ UNCHANGED <<NotOrchestrator, faults, api_calls>>

NextRepeat ==
    \/ RepeatStartStep
    \/ QuietRunStep
    \/ ClockStep

\* one Orchestrator whose user calls run_factory several times
SpecRepeat == InitSpec /\ [][NextRepeat]_vars

NextApi ==
    \/ RunStartStep
    \/ QuietRunStep
    \/ ResumeStep
    \/ HandleFailureStep
    \/ CheckpointCallStep

\* an Orchestrator whose user also calls checkpoint, handle_failure and
\* resume_from_checkpoint between the runs
SpecApi == InitSpec /\ [][NextApi]_vars

-----------------------------------------------------------------------------
(* Claims about AgentRuntime *)

\* C1: every execute_agent call appends exactly one record to the ledger
\* whatever its outcome: whenever no call is in flight, the ledger holds as
\* many records as calls were made and its i-th record is the record the
\* i-th call returned.
C1_EveryCallAppended ==
    rt_pc = "idle" =>
        /\ Len(execution_history) = rt_calls
        /\ Len(rt_returned) = rt_calls
        /\ \A i \in 1..rt_calls : execution_history[i] = rt_returned[i]

C6_CallReturns ==
    (rt_pc = "joining" /\ rt_call.timeout_seconds > 0) ~> (rt_pc = "idle")

\* a call with a positive timeout has returned while its worker is still
\* running
C6_Witness ==
    /\ rt_pc = "idle"
    /\ rt_alive
    /\ rt_abandoned > 0
    /\ rt_call.timeout_seconds > 0
    /\ Len(rt_returned) = rt_calls

-----------------------------------------------------------------------------
(* Claims about Transaction *)

\* the files the transaction's operations leave under an empty staging
\* root: its file set
RECURSIVE FileSetAfter(_, _)
FileSetAfter(ops, files) ==
    IF ops = <<>> THEN files
    ELSE LET op == Head(ops)
         IN  FileSetAfter(Tail(ops),
               IF op.is_dir THEN files
               ELSE IF op.operation_type = "delete"
                 THEN [files EXCEPT ![op.target] = Absent]
                 ELSE [files EXCEPT ![op.target] = op.content])

FileSet == FileSetAfter(txn.operations, NoFiles)

\* C3: after create_file / modify_file / delete_file calls followed by
\* rollback (no commit was attempted), the working directory has the files
\* and the contents it had when the transaction began, in staged and in
\* direct mode.
C3_RollbackRestores ==
    (txn.rolled_back /\ ~txn.commit_called) => fs.work.files = work0.files

\* C4, for a transaction with staging: once the with block has returned
\* control, the working directory holds every file of the transaction's
\* file set or is as it was when the transaction began, also when the
\* commit's copy failed part-way and the automatic rollback ran.
C4_AllOrNothing ==
    (txn_pc = "exited" /\ txn.enable_staging) =>
        \/ fs.work.files = work0.files
        \/ \A p \in Paths : FileSet[p] # Absent => fs.work.files[p] = FileSet[p]

-----------------------------------------------------------------------------
(* Claims about Orchestrator *)

\* the agents of run_factory in the order of their calls; git_ops is called
\* for init and again for commit
PipelineOrder == <<"safety_guard", "planner", "architect", "implementer",
                   "tester", "doc_writer", "git_ops", "git_ops">>

CheckpointPcs == {CheckpointPc(stage) : stage \in CriticalStages \cup {"complete"}}

\* the record a sequence of records ends with
LastRun(runs) == runs[Len(runs)]

\* the checkpoints with the tag stage_name that load from the directory of
\* the Orchestrator's manager
StoredCheckpoints(stage_name) ==
    IF checkpoint_manager = None THEN {}
    ELSE {load_checkpoint(ckpt_store[checkpoint_manager], id) :
             id \in {i \in CheckpointIds : i[1] = stage_name}} \ {NoCheckpoint}

C7_CheckpointFailureKeepsOutcome ==
    [][\A stage \in CriticalStages \cup {"complete"} :
          (orch_pc = CheckpointPc(stage) /\ orch_pc' # orch_pc) =>
              /\ orch_pc' = AfterCheckpoint(stage)
              /\ result'.errors = result.errors
              /\ stage = "complete" => result'.success]_vars

\* C8: a run whose critical stages all succeeded and whose tester,
\* doc_writer or git_ops record is not a success still executes every later
\* stage and returns success = true.
C8_BestEffortFailureContinues ==
    (/\ orch_pc = "idle"
     /\ result.finalized
     /\ Len(result.agent_runs) >= 5
     /\ \E i \in 5..Len(result.agent_runs) : result.agent_runs[i].status # "success")
    =>
    (/\ result.success
     /\ Len(result.agent_runs) >= 7
     /\ result.agent_runs[6].agent_name = "doc_writer"
     /\ result.agent_runs[7].agent_name = "git_ops")

\* C9: the agents of one run_factory call are executed in the fixed order,
\* each started only after the record of the one before was returned: the
\* agent_runs of the result name a prefix of the pipeline's order, each
\* record is the one the runtime returned for its call, and the calls are
\* consecutive calls of the runtime.
C9_StagesInOrder ==
    /\ Len(result.agent_runs) <= Len(PipelineOrder)
    /\ \A i \in 1..Len(result.agent_runs) :
          /\ result.agent_runs[i].agent_name = PipelineOrder[i]
          /\ result.agent_runs[i].started_at < Len(rt_returned)
          /\ rt_returned[result.agent_runs[i].started_at + 1] = result.agent_runs[i]
          /\ i > 1 => result.agent_runs[i].started_at
                         = result.agent_runs[i - 1].started_at + 1

\* a run that went through every stage
C9_Witness ==
    /\ orch_pc = "idle"
    /\ Len(result.agent_runs) = 8
    /\ result.agent_runs[5].status = "failed"

\* C10: when the agent of the stage after a critical stage is about to be
\* executed, a checkpoint tagged with the critical stage is stored whose
\* completed_runs contains the record of the stage that just succeeded.
C10_CheckpointBeforeNextStage ==
    \A stage \in CriticalStages :
        (orch_pc = AfterCheckpoint(stage)) =>
            \E c \in StoredCheckpoints(CheckpointOf(stage)) :
                \E i \in 1..Len(c.completed_runs) :
                    /\ c.completed_runs[i] = LastRun(result.agent_runs)
                    /\ c.completed_runs[i].agent_name = AgentOf(stage)
                    /\ c.completed_runs[i].status = "success"

\* the tester is about to run on a checkpointed implementation
C10_Witness ==
    /\ orch_pc = "testing"
    /\ StoredCheckpoints("implementation_complete") # {}
    /\ LastRun(result.agent_runs).agent_name = "implementer"

-----------------------------------------------------------------------------
(* Claims about checkpoints and recovery in the Orchestrator *)

\* the sequence p is the beginning of the sequence q
IsPrefix(p, q) ==
    /\ Len(p) <= Len(q)
    /\ \A i \in 1..Len(p) : p[i] = q[i]

\* the elements of a sequence
Range(seq) == {seq[i] : i \in 1..Len(seq)}

\* the critical stages in the order run_factory runs them
CriticalOrder == <<"safety", "planning", "architecture", "implementation">>

\* the latest.json of the Orchestrator's manager
LatestFile == ckpt_store[checkpoint_manager].latest

\* a step in which the Orchestrator's user calls op
ApiStep(op) ==
    /\ api_calls' = api_calls + 1
    /\ orch_call'.op = op

\* C11: the completed_runs stored in the latest checkpoint is a prefix of
\* the Orchestrator's live ledger, after any sequence of run_factory,
\* checkpoint and resume_from_checkpoint calls.
C11_LatestIsPrefixOfLedger ==
    (checkpoint_manager # None /\ LatestFile.state = "ok") =>
        IsPrefix(LoadFile(LatestFile).completed_runs, completed_runs)

\* C12: a run that ended at a critical stage's failure, or at the rejection
\* of the idea, has success = false, an error that names the failed stage
\* and an error that lists recovery options containing retry and abort.
C12_FailureListsRecovery ==
    (/\ orch_pc = "idle"
     /\ result.finalized
     /\ Len(result.agent_runs) \in 1..Len(CriticalOrder)
     /\ CriticalRunAborts(CriticalOrder[Len(result.agent_runs)],
                          LastRun(result.agent_runs)))
    =>
    (/\ ~result.success
     /\ \E i \in 1..Len(result.errors) :
           result.errors[i].text
              \in {FailureText(CriticalOrder[Len(result.agent_runs)]),
                   "Idea rejected by SafetyGuard"}
     /\ \E i \in 1..Len(result.errors) :
           {"retry", "abort"} \subseteq Range(result.errors[i].options))

\* some checkpoint file of the manager's project holds a whole checkpoint
CheckpointExists(manager, store) ==
    /\ manager # None
    /\ \/ store[manager].latest.state = "ok"
       \/ \E id \in CheckpointIds : store[manager].files[id].state = "ok"

\* C13 as stated: the options handle_failure returns contain resume exactly
\* when a checkpoint exists for the project, can_resume is true exactly
\* then, and the options always contain retry, skip and abort.
C13_ResumeIffCheckpointExists ==
    [][ApiStep("handle_failure") =>
          /\ ("resume" \in Range(recovery'.recovery_options))
                <=> CheckpointExists(checkpoint_manager, ckpt_store)
          /\ recovery'.can_resume
                <=> CheckpointExists(checkpoint_manager, ckpt_store)
          /\ {"retry", "skip", "abort"}
                \subseteq Range(recovery'.recovery_options)]_vars

\* C13 as the code has it: the options contain resume exactly when
\* can_resume is true, which is exactly when the Orchestrator has a manager
\* whose latest.json loads; they contain retry, skip and abort exactly when
\* offer_recovery is true, and none of the three otherwise.
C13_ResumeIffLatestLoads ==
    [][ApiStep("handle_failure") =>
          LET options == Range(recovery'.recovery_options)
              loads == /\ checkpoint_manager # None
                       /\ LatestFile.state = "ok"
          IN  /\ ("resume" \in options) <=> loads
              /\ recovery'.can_resume <=> loads
              /\ IF orch_call'.args.offer_recovery
                   THEN {"retry", "skip", "abort"} \subseteq options
                   ELSE {"retry", "skip", "abort"} \cap options = {}]_vars

\* handle_failure was called on a checkpointed Orchestrator and offered
\* resume with the three other options
C13_Witness ==
    /\ orch_call.op = "handle_failure"
    /\ orch_call.args.offer_recovery
    /\ recovery.can_resume
    /\ recovery.recovery_options = <<"resume", "retry", "skip", "abort">>

\* C14: a handle_failure call executes no agent and leaves the runtime's
\* ledger, the Orchestrator's ledger, the manager and the stored
\* checkpoints with their latest.json as they were.
C14_HandleFailureOnlyReports ==
    [][ApiStep("handle_failure") =>
          /\ rt_calls' = rt_calls
          /\ execution_history' = execution_history
          /\ completed_runs' = completed_runs
          /\ checkpoint_manager' = checkpoint_manager
          /\ ckpt_store' = ckpt_store]_vars

\* handle_failure was called on an Orchestrator with a ledger and a latest
\* checkpoint
C14_Witness ==
    /\ orch_call.op = "handle_failure"
    /\ completed_runs # <<>>
    /\ checkpoint_manager # None
    /\ LatestFile.state = "ok"
    /\ recovery.failed_stage = "planning"

\* the file resume_from_checkpoint(checkpoint_id) reads
RequestedFile(checkpoint_id) ==
    IF checkpoint_manager = None THEN MissingFile
    ELSE IF checkpoint_id = LatestId
           THEN ckpt_store[checkpoint_manager].latest
           ELSE ckpt_store[checkpoint_manager].files[checkpoint_id]

C16_RunFactoryAlwaysReturns ==
    /\ orch_pc # "raised"
    /\ (orch_pc = "idle" /\ orch_runs > 0) =>
          /\ result.finalized
          /\ ~result.success => Len(result.errors) >= 1
          /\ result.success => result.errors = <<>>

\* a run ended in the exception handler and the pipeline_failed checkpoint
\* could not be saved either
C16_Witness ==
    /\ orch_pc = "idle"
    /\ result.finalized
    /\ ~result.success
    /\ \E i \in 1..Len(result.errors) : result.errors[i].text = "checkpoint error"
    /\ faults = 2
    /\ checkpoint_manager # None
    /\ \A id \in CheckpointIds :
          id[1] = "pipeline_failed" =>
             ckpt_store[checkpoint_manager].files[id].state # "ok"


(***************************************************************************)
(* Claims about the CheckpointManager                                      *)
(***************************************************************************)

\* the directory of the manager that is used on its own
ManagerDir == ckpt_store[ManagerName]

\* a step that is one call of the manager's method op
ManagerStep(op) ==
    /\ mgr_calls' = mgr_calls + 1
    /\ mgr_call'.op = op

\* latest.json, if it is there, holds what a whole uniquely named file holds
LatestIsPersisted(dir) ==
    dir.latest.state # "missing" =>
        \E id \in CheckpointIds :
            /\ dir.files[id].state = "ok"
            /\ dir.latest.state = "ok"
            /\ dir.files[id].data = dir.latest.data

\* C17: a save, failing at any write step or not, keeps this true: the
\* latest record, if present, has the content of a uniquely named record
\* that was fully persisted.
C17_LatestIsPersistedRecord ==
    [][(ManagerStep("save_checkpoint") /\ LatestIsPersisted(ManagerDir))
          => LatestIsPersisted(ckpt_store'[ManagerName])]_vars

C19_SaveGetsFreshId ==
    [][(ManagerStep("save_checkpoint") /\ ~mgr_call'.raised)
          => ManagerDir.files[mgr_call'.args].state = "missing"]_vars

\* the IDs of the checkpoints stored in a directory
Stored(dir) == {id \in CheckpointIds : dir.files[id].state = "ok"}

\* the stored checkpoints, newest first
StoredNewestFirst(dir) ==
    SortNewestFirst({ListEntry(dir.files[id]) : id \in Stored(dir)})

\* the IDs of the keep newest stored checkpoints
Newest(dir, keep) ==
    {StoredNewestFirst(dir)[i].checkpoint_id :
        i \in 1..(IF keep < Cardinality(Stored(dir))
                    THEN keep ELSE Cardinality(Stored(dir)))}

\* C20: cleanup_old_checkpoints(keep) on a project with n stored
\* checkpoints leaves exactly the min(n, keep) newest of them, untouched,
\* and returns max(0, n - keep).
C20_CleanupKeepsNewest ==
    [][ManagerStep("cleanup_old_checkpoints") =>
          LET keep == mgr_call'.args
              n == Cardinality(Stored(ManagerDir))
              after == ckpt_store'[ManagerName]
          IN  /\ Stored(after) = Newest(ManagerDir, keep)
              /\ \A id \in Stored(after) :
                    after.files[id] = ManagerDir.files[id]
              /\ mgr_call'.count = (IF n > keep THEN n - keep ELSE 0)]_vars

\* C21: list_checkpoints returns one entry per stored checkpoint of the
\* project, newest first by timestamp, and no entry for latest.json.
C21_ListsStoredNewestFirst ==
    mgr_call.op = "list_checkpoints" =>
        mgr_call.listed = StoredNewestFirst(ManagerDir)

\* C22: after clear_all_checkpoints, list_checkpoints() is empty and
\* load_checkpoint with any ID or without one finds nothing; the count
\* returned is the number of checkpoints list_checkpoints() reported
\* before the call.
C22_ClearAllDeletesAndCounts ==
    [][ManagerStep("clear_all_checkpoints") =>
          LET after == ckpt_store'[ManagerName]
          IN  /\ list_checkpoints(after) = <<>>
              /\ \A id \in CheckpointIds \cup {LatestId} :
                    load_checkpoint(after, id) = NoCheckpoint
              /\ mgr_call'.count = Len(list_checkpoints(ManagerDir))]_vars

-----------------------------------------------------------------------------
(* Claims about the Transaction as a scoped resource *)

\* C23: when an exception propagates out of the with block, rollback has
\* run when the caller gets control, no commit was performed by the exit
\* and the exception the caller gets is the body's; when the block ends
\* normally the exit commits, and the caller gets no exception only from a
\* committed transaction.
C23_ExitCommitsOrRollsBack ==
    [][/\ ExitExceptionStep =>
             (/\ txn'.rolled_back /\ ~txn'.active
              /\ txn'.committed = txn.committed
              /\ txn'.commit_called = txn.commit_called
              /\ (txn.enable_staging => fs'.work = fs.work)
              /\ txn_exc' = "BodyError")
       /\ ExitNormalStep =>
             (/\ (txn_exc' = None => (txn'.committed /\ ~txn'.rolled_back))
              /\ (txn_exc' # None => txn'.rolled_back)
              /\ (txn.active => txn'.commit_called))]_vars

\* the with block was left by an exception after it had recorded
\* operations, and the transaction is rolled back and not committed
C23_Witness ==
    /\ txn_pc = "exited" /\ txn_exc = "BodyError"
    /\ Len(txn.operations) > 0
    /\ txn.rolled_back /\ ~txn.committed /\ ~txn.commit_called

\* C24: a second commit on a Transaction that has committed raises no
\* error and leaves the working directory and the transaction unchanged.
C24_SecondCommitIsNoOp ==
    [][(CommitStep /\ txn.committed) =>
          (txn_exc' = None /\ txn' = txn /\ fs' = fs)]_vars

\* the positions 1..n, last first
ReverseOrder(n) == [i \in 1..n |-> n + 1 - i]

\* a step in which the transaction's rollback ran
RollbackRan == ~txn.rolled_back /\ txn'.rolled_back

CommitReturned == ~txn.committed /\ txn'.committed /\ txn_exc' = None

\* C26: a commit that returns has, with staging, copied every file of the
\* staging root to the same relative path of the working directory, left
\* the other files of the working directory alone and deleted the staging
\* root; without staging it has changed no file.  Either way the
\* transaction is committed and no longer active.
C26_CommitCopiesStaging ==
    [][CommitReturned =>
          /\ txn'.committed /\ ~txn'.active
          /\ IF txn.enable_staging
                THEN /\ \A p \in Paths :
                          fs'.work.files[p] =
                            IF FileExists(fs.stage, p) THEN fs.stage.files[p]
                                                       ELSE fs.work.files[p]
                     /\ ~fs'.stage.exists
                ELSE fs'.work = fs.work]_vars

\* a transaction with staging has committed two created files, one over a
\* file the working directory had with other content
C26_Witness ==
    /\ txn.committed /\ txn.enable_staging /\ ~txn.rolled_back
    /\ Len(txn.operations) = 2
    /\ \A i \in 1..2 :
          /\ txn.operations[i].operation_type = "create"
          /\ ~txn.operations[i].is_dir
          /\ fs.work.files[txn.operations[i].target] = txn.operations[i].content
    /\ txn.operations[1].target # txn.operations[2].target
    /\ \E p \in Paths : work0.files[p] \notin {Absent, fs.work.files[p]}
    /\ ~fs.stage.exists

\* C27: once the transaction has ended, by commit or by rollback, neither
\* its staging root nor its backup root exists.
C27_RootsAreEphemeral ==
    (txn.committed \/ txn.rolled_back) =>
        /\ (txn.enable_staging => ~fs.stage.exists)
        /\ ~fs.backup.exists

-----------------------------------------------------------------------------
(* Claims about the CodeWriter *)

\* the pairs of path and content of a files dict
FilePairs(files) == {files[i] : i \in DOMAIN files}

\* C28: when write_project_files has written a set of files and returned,
\* and the next call writes the same set of files and returns, staged or
\* direct, the working directory after the second call has the files and
\* contents it had after the first.
C28_SecondWriteChangesNothing ==
    [][(/\ Len(wr_history') = 2
        /\ Len(wr_history) = 1
        /\ wr_history'[1].raised = None
        /\ wr_history'[2].raised = None
        /\ FilePairs(wr_history'[1].files) = FilePairs(wr_history'[2].files))
          => fs'.work = fs.work]_vars

\* two files, one in a directory, were written twice over a working
\* directory that had one of them with other content, once with staging
\* and once without, and both calls returned
C28_Witness ==
    /\ Len(wr_history) = 2
    /\ wr_history[1].raised = None /\ wr_history[2].raised = None
    /\ FilePairs(wr_history[1].files) = FilePairs(wr_history[2].files)
    /\ Cardinality(FilePairs(wr_history[1].files)) = 2
    /\ wr_history[1].enable_staging # wr_history[2].enable_staging
    /\ \A pair \in FilePairs(wr_history[1].files) :
          fs.work.files[pair[1]] = pair[2]
    /\ txn.committed

-----------------------------------------------------------------------------
(* Claims about the AgentRuntime's error handling *)

\* the record the last execute_agent call returned to its caller
LastReturned(returned) == returned[Len(returned)]

\* C29: execute_agent does not raise for a name that is not registered or
\* for an agent that raises: the call returns a record with status failed,
\* the error text ("not found" for the missing agent, the exception's
\* message otherwise) and no output, and the runtime is idle again, ready
\* for the next call.
C29_MissingOrRaisingAgentFails ==
    [][/\ \A name \in AgentNames, input \in Inputs, t \in TimeoutArgs :
            ExecuteAgentNotFound(name, input, t) =>
               (/\ Len(rt_returned') = Len(rt_returned) + 1
                /\ LastReturned(rt_returned').status = "failed"
                /\ LastReturned(rt_returned').error = NotFoundError(name)
                /\ LastReturned(rt_returned').output_data = NoOutput
                /\ rt_pc' = "idle")
       /\ (ExecuteAgentReport /\ rt_worker = "finished" /\ result_container.error) =>
               (/\ Len(rt_returned') = Len(rt_returned) + 1
                /\ LastReturned(rt_returned').status = "failed"
                /\ LastReturned(rt_returned').error = ExceptionError(rt_call.agent_name)
                /\ LastReturned(rt_returned').output_data = NoOutput
                /\ rt_pc' = "idle")]_vars

\* a call for a missing agent returned a failed record, and the next call,
\* on an agent that raised, returned a failed record too
C29_Witness ==
    /\ Len(rt_returned) = 2
    /\ rt_returned[1].status = "failed"
    /\ rt_returned[1].error.kind = "not found"
    /\ rt_returned[2].status = "failed"
    /\ rt_returned[2].error.kind = "exception"
    /\ rt_pc = "idle"

\* C30: registering an agent under a name that is already registered fails
\* with an error and changes nothing: get_agent(name) still returns the
\* agent registered first and the set of registered names is the same.
C30_DuplicateRegistrationRefused ==
    [][\A name \in AgentNames, agent \in AgentObjects :
          (register_agent(name, agent) /\ name \in agents) =>
             (/\ rt_raised'
              /\ agents' = agents
              /\ get_agent(rt_objects', name) = get_agent(rt_objects, name))]_vars

\* a second registration of a name, with another agent object, was refused
\* and the name still has the agent registered first
C30_Witness ==
    /\ rt_raised
    /\ \E name \in agents : get_agent(rt_objects, name) = "agent1"
    /\ \A name \in agents :
          Cardinality({agent \in AgentObjects : <<name, agent>> \in rt_objects}) = 1

-----------------------------------------------------------------------------
(* Claims about the execution history *)

\* C31: get_execution_history returns a defensive copy: appending to,
\* removing from or reordering the returned list never changes what a later
\* get_execution_history call returns, and the ledger only grows by
\* appends: every step leaves the records it held as a prefix.
C31_HistoryIsDefensiveCopy ==
    [][/\ Len(execution_history) <= Len(execution_history')
       /\ SubSeq(execution_history', 1, Len(execution_history)) = execution_history
       /\ MutateViewStep =>
             (get_execution_history(execution_history').items =
                get_execution_history(execution_history).items)]_vars

\* the caller changed the list it was given while the ledger held records:
\* the two differ and the ledger still holds what execute_agent returned
C31_Witness ==
    /\ rt_view.list # None
    /\ Len(execution_history) >= 1
    /\ ViewItems(rt_view, execution_history) # execution_history
    /\ \E i \in 1..Len(rt_view.items) : rt_view.items[i] = CallerRun

\* C32: every record execute_agent returned has a terminal status (failed
\* or success, never pending or running), has an error exactly when its
\* status is not success and has an output exactly when its status is
\* success.
C32_ReturnedRecordsAreTerminal ==
    \A i \in 1..Len(rt_returned) :
        /\ rt_returned[i].status \in {"success", "failed"}
        /\ (rt_returned[i].error # NoError) <=> (rt_returned[i].status # "success")
        /\ (rt_returned[i].output_data # NoOutput) <=> (rt_returned[i].status = "success")

\* a call that succeeded and a call that failed have both returned
C32_Witness ==
    /\ Len(rt_returned) = 2
    /\ rt_returned[1].status = "success"
    /\ rt_returned[1].output_data # NoOutput
    /\ rt_returned[2].status = "failed"
    /\ rt_returned[2].error # NoError

\* C33: a timeout of zero means no deadline: a call made with
\* timeout_seconds = 0 is reported only once its worker has ended, as
\* success or failed according to the agent's outcome, never as a timeout.
C33_ZeroTimeoutWaits ==
    [][(ExecuteAgentReport /\ rt_call.timeout_seconds = 0) =>
          (/\ rt_worker = "finished"
           /\ LastReturned(rt_returned').error.kind # "TIMEOUT")]_vars

-----------------------------------------------------------------------------
(* Claims about the checkpoint storage of different projects *)

\* the checkpoints the storage of a run holds: its files and latest.json
RunStorage(r) ==
    IF pr_runs[r].manager = None THEN {}
    ELSE LET dir == ckpt_store[pr_runs[r].manager]
         IN  ({load_checkpoint(dir, id) : id \in CheckpointIds}
                \cup {load_checkpoint(dir, LatestId)}) \ {NoCheckpoint}

\* C34: checkpoint storage is scoped per project: under any interleaving
\* of two runs for different projects, the storage of a run holds, lists
\* and returns as latest only checkpoints that run wrote.
C34_StorageScopedPerProject ==
    \A r \in RunIds :
        /\ \A c \in RunStorage(r) : c.idea = RunIdea(r)
        /\ pr_runs[r].manager # None =>
              \A i \in 1..Len(list_checkpoints(ckpt_store[pr_runs[r].manager])) :
                 \E c \in RunStorage(r) :
                    /\ c.idea = RunIdea(r)
                    /\ c.checkpoint_id =
                         list_checkpoints(ckpt_store[pr_runs[r].manager])[i].checkpoint_id

-----------------------------------------------------------------------------
(* Claims about the ledger of successive runs *)

\* C35: the completed_runs stored in each checkpoint of a run_factory call,
\* the second and later calls on the same Orchestrator included, hold only
\* records of that run: they are a prefix of the agent_runs of the run's
\* result.
C35_CheckpointHoldsOnlyThisRun ==
    [][(/\ ckpt_store' # ckpt_store
        /\ checkpoint_manager' # None
        /\ ckpt_store'[checkpoint_manager'].latest.state = "ok")
          => IsPrefix(LoadFile(ckpt_store'[checkpoint_manager'].latest).completed_runs,
                      result'.agent_runs)]_vars

-----------------------------------------------------------------------------
(* Claims about the latest pointer of a CheckpointManager *)

\* C36: the latest pointer refers to a stored checkpoint: after any
\* sequence of save_checkpoint, delete_checkpoint, cleanup_old_checkpoints
\* and clear_all_checkpoints, a checkpoint that load_checkpoint() returns
\* has its ID in list_checkpoints() and load_checkpoint(that ID) returns
\* the same content.  Stated for the sequences in which no write failed.
C36_LatestIsStored ==
    LET latest == load_checkpoint(ManagerDir, LatestId)
        listed == list_checkpoints(ManagerDir)
    IN  (faults = 0 /\ latest # NoCheckpoint) =>
          /\ \E i \in 1..Len(listed) : listed[i].checkpoint_id = latest.checkpoint_id
          /\ load_checkpoint(ManagerDir, latest.checkpoint_id) = latest

-----------------------------------------------------------------------------
(* Claims about the terminal states of a Transaction *)

\* C37: the terminal states of a Transaction are exclusive: after any
\* sequence of file operations, commit, rollback and scope exit, a commit
\* that fails and a rollback called after commit included, committed and
\* rolled_back are never both true, and active is false whenever either
\* is true.
C37_TerminalStatesExclusive ==
    /\ ~(txn.committed /\ txn.rolled_back)
    /\ (txn.committed \/ txn.rolled_back) => ~txn.active

-----------------------------------------------------------------------------
(* Claims about records once they are reported *)

\* a record reports exactly one outcome, and its output and error fit it:
\* a timeout or a failure has an error and no output, a success has an
\* output and no error
OneOutcome(run) ==
    \/ /\ run.status = "failed"
       /\ run.error.kind \in {"TIMEOUT", "exception", "not found"}
       /\ run.output_data = NoOutput
    \/ /\ run.status = "success"
       /\ run.error = NoError
       /\ run.output_data # NoOutput

\* C38: a record is final once reported: no step, the end of an abandoned
\* worker included, changes a record execute_agent returned or an entry of
\* the ledger, and under every interleaving of the worker with the
\* deadline each returned record reports exactly one outcome that its
\* output and error fields fit.
C38_ReportedRecordIsFinal ==
    [][/\ Len(rt_returned') >= Len(rt_returned)
       /\ \A i \in 1..Len(rt_returned) : rt_returned'[i] = rt_returned[i]
       /\ Len(execution_history') >= Len(execution_history)
       /\ \A i \in 1..Len(execution_history) :
             execution_history'[i] = execution_history[i]
       /\ \A i \in 1..Len(rt_returned') : OneOutcome(rt_returned'[i])]_vars

\* a call returned its timeout record and the worker it abandoned has
\* ended since
C38_Witness ==
    /\ rt_pc = "idle"
    /\ rt_alive
    /\ rt_abandoned = 0
    /\ Len(rt_returned) >= 1
    /\ LastReturned(rt_returned).error.kind = "TIMEOUT"
    /\ LastReturned(rt_returned).status = "failed"
    /\ LastReturned(execution_history) = LastReturned(rt_returned)

-----------------------------------------------------------------------------
(* Claims about the isolation of staged mode *)

\* C39: in a Transaction with staging enabled, create_file,
\* create_directory, modify_file and delete_file change only the staging
\* and backup roots: the working directory's files and contents stay as
\* they were until commit runs.
C39_StagedOperationsLeaveWorkingDir ==
    [][(/\ txn.enable_staging
        /\ \/ CreateFileStep
           \/ CreateDirectoryStep
           \/ ModifyFileStep
           \/ DeleteFileStep)
          => fs'.work = fs.work]_vars

\* a staged transaction has made its operations, the staging root holds
\* files and the working directory is as it was when the scope began
C39_Witness ==
    /\ txn_pc = "body"
    /\ txn.enable_staging
    /\ ~txn.committed
    /\ Len(txn.operations) >= 2
    /\ FilesOf(fs.stage) # {}
    /\ fs.stage.files # fs.work.files
    /\ fs.work = work0

====
